---------------------------- MODULE Spec2Model ----------------------------
(***************************************************************************)
(* The sphere test of ScerSeg: random sphere sampling of genes placed in   *)
(* 3-D (utils/SphereGeneSampler.h), population sampling                    *)
(* (utils/RandomGeneSampler.h), the Monte-Carlo p-value of a work unit     *)
(* (utils/SphereTest.h and the per-size cached variant of the              *)
(* MotifFields / ReplicationTimingFields programs).                        *)
(*                                                                         *)
(* Doubles are modelled as exact rationals [num, den] (den = 0 is NaN);    *)
(* coordinates are integers of a scaled-down box.  Pointers to genes of    *)
(* the pool are modelled as 1-based indices into the pool.                 *)
(***************************************************************************)
EXTENDS Integers, Sequences, FiniteSets, TLC

VARIABLES
    signal,            \* which program's Gene struct instantiates the templates
    genes,             \* const QVector<Gene> genes: the pool
    sphereRadius,      \* const double sphereRadius
    minimumGeneCount,  \* const int minimumGeneCount
    sampleCount,       \* const int sampleCount (spheres, and random draws per sphere)
    pc,                \* position of the run
    workUnits,         \* QVector<WorkUnit<Gene>> (result of createWorkUnits)
    averageGenesInASphere,  \* int averageGenesInASphere, written by createWorkUnits
    center,            \* SphereGeneSampler::sample: the centre drawn last
    sampled,           \* SphereGeneSampler::sample: the vector returned last
    cur,               \* number of work units the current for loop is done with
    r,                 \* loop counter r of the random-sample loops
    drawn,             \* log of the population samples drawn: key -> sequence of
                       \* [size, statistic], one per call of RandomGeneSampler::sample;
                       \* the key is the unit's index (WorkUnit::calculatePValue) or
                       \* the gene count (cached variant)
    geneCountToRandomStatistics, \* QMap<int, QVector<double>> of the cached variant
    benjaminiCalls,    \* log of the calls of benjamini: argument and result of each
    result,            \* clusterByGeneOverlap: QVector<GeneList> result
    overlapThreshold,  \* clusterByGeneOverlap: double overlapThreshold
    maximumOverlapRatio,  \* double maximumOverlapRatio of the caller
    merges,            \* number of merges clusterByGeneOverlap has applied
    clusters,          \* QVector<QSet<QString>> clusters of the caller
    genesUsed,         \* QSet<QString> genesUsed of the caller
    table,             \* rows of the table db::writeClusters fills
    workers,           \* omp parallel for: each thread's iteration and position in it
    started,           \* omp parallel for: the iterations handed to a thread
    generators,        \* the std::default_random_engine of each randomSampler
    taxonFrequency,    \* TaxonFrequencyMap taxonFrequency (global of part_006)
    accesses,          \* log of the reads and writes of the parallel loop
    pAdjThreshold,     \* const double pAdjThreshold of the program
    statisticCall,     \* a call of sphereTestStatistic: its argument and outcome
    calls              \* number of rounds of calculatePValue calls begun

\* the variables of the stages after the p-values
clusterVars == <<result, overlapThreshold, maximumOverlapRatio, merges, clusters,
                 genesUsed, table>>
\* the variables of the parallel p-value loop
parVars == <<workers, started, generators, taxonFrequency, accesses>>
\* the significance threshold, and the variables of single calls
callVars == <<pAdjThreshold, statisticCall, calls>>
laterVars == <<benjaminiCalls, clusterVars, parVars, callVars>>

vars == <<signal, genes, sphereRadius, minimumGeneCount, sampleCount, pc,
          workUnits, averageGenesInASphere, center, sampled, cur, r, drawn,
          geneCountToRandomStatistics, laterVars>>

-----------------------------------------------------------------------------
(* Bounds of the model *)

\* largest coordinate of the (scaled-down) sampling box
MaxCoord == 1
\* largest sphere radius tried
MaxRadius == 1
\* largest minimumGeneCount tried
MaxMinimumGeneCount == 3
\* largest sampleCount tried when only spheres are sampled
MaxSampleCount == 2
\* largest signal value (replication timing, histone level, motif bit pattern) of a gene
MaxValue == 1

-----------------------------------------------------------------------------
(* Program constants *)

boxMinimum == 0
boxMaximum == MaxCoord
minimumIndexSpaceJump == 100

Signals == {"Promoter", "Motif", "ReplicationTiming"}

-----------------------------------------------------------------------------
(* double: exact rationals, NaN as den = 0 *)

Q(n, d) == [num |-> n, den |-> d]
NaN == Q(0, 0)
IsNaN(a) == a.den = 0
\* a < b, a <= b, a >= b on doubles: false when either side is NaN
QLt(a, b) == ~IsNaN(a) /\ ~IsNaN(b) /\ a.num * b.den < b.num * a.den
QLe(a, b) == ~IsNaN(a) /\ ~IsNaN(b) /\ a.num * b.den <= b.num * a.den
QGe(a, b) == QLe(b, a)
QEq(a, b) == ~IsNaN(a) /\ ~IsNaN(b) /\ a.num * b.den = b.num * a.den
\* std::max(a, b) is (a < b) ? b : a; std::min(a, b) is (b < a) ? b : a
StdMax(a, b) == IF QLt(a, b) THEN b ELSE a
StdMin(a, b) == IF QLt(b, a) THEN b ELSE a
QSub(a, b) == IF IsNaN(a) \/ IsNaN(b) THEN NaN
              ELSE Q(a.num * b.den - b.num * a.den, a.den * b.den)
QMul(a, b) == IF IsNaN(a) \/ IsNaN(b) THEN NaN ELSE Q(a.num * b.num, a.den * b.den)
\* (double)n / (double)d : 0/0 is NaN
QDiv(n, d) == IF d = 0 THEN NaN ELSE Q(n, d)

Abs(x) == IF x < 0 THEN -x ELSE x

-----------------------------------------------------------------------------
(* Vec3D *)

Vec3D(x, y, z) == [x |-> x, y |-> y, z |-> z]
\* Vec3D::operator-
Vec3DMinus(a, b) == Vec3D(a.x - b.x, a.y - b.y, a.z - b.z)
\* Vec3D::length() is sqrt(x*x + y*y + z*z); the model keeps the square
Vec3DLengthSquared(v) == v.x * v.x + v.y * v.y + v.z * v.z
\* Vec3D::distance(a, b), squared
Vec3DDistanceSquared(a, b) == Vec3DLengthSquared(Vec3DMinus(b, a))

\* Vec3D::distance(center, position) <= radius, for radius >= 0:
\* sqrt is monotone, so the test is the test of the squares
WithinRadius_strict(c, position, radius) ==
    Vec3DDistanceSquared(c, position) < radius * radius
WithinRadius(c, position, radius) ==
    Vec3DDistanceSquared(c, position) <= radius * radius

-----------------------------------------------------------------------------
(* SphereGeneSampler *)

\* values of distribution(generator), a uniform_real_distribution over the box
BoxCoordinates == boxMinimum .. boxMaximum
Centers == {Vec3D(x, y, z) : x \in BoxCoordinates, y \in BoxCoordinates, z \in BoxCoordinates}

\* the for loop of SphereGeneSampler::sample over pool[from..], result so far acc
RECURSIVE SphereLoop(_, _, _, _, _)
SphereLoop(pool, c, radius, from, acc) ==
    IF from > Len(pool) THEN acc
    ELSE SphereLoop(pool, c, radius, from + 1,
                    IF WithinRadius(c, pool[from].position, radius)
                    THEN Append(acc, from) ELSE acc)

\* SphereGeneSampler::sample(radius), for the centre the generator gave
SphereSample_twice(pool, c, radius) ==
    SphereLoop(pool, c, radius, 1, SphereLoop(pool, c, radius, 1, <<>>))
SphereSample(pool, c, radius) == SphereLoop(pool, c, radius, 1, <<>>)

-----------------------------------------------------------------------------
(* WorkUnit *)

\* WorkUnit(const QVector<Gene> &pool): the member initialisers
NewWorkUnit ==
    [genesInSphere |-> <<>>, pValue |-> Q(1, 1), chanceWinCount |-> 0,
     randomGenes |-> <<>>, statisticInSphere |-> Q(0, 1),
     statisticInRandom |-> Q(0, 1), rank |-> 0, adjustedPValue |-> Q(1, 1)]

\* WorkUnit(const WorkUnit &other): statisticInSphere and statisticInRandom are
\* not copied and keep their member initialisers
CopyWorkUnit(other) ==
    [genesInSphere |-> other.genesInSphere, pValue |-> other.pValue,
     chanceWinCount |-> other.chanceWinCount, randomGenes |-> other.randomGenes,
     statisticInSphere |-> Q(0, 1), statisticInRandom |-> Q(0, 1),
     rank |-> other.rank, adjustedPValue |-> other.adjustedPValue]

-----------------------------------------------------------------------------
(* The Gene structs of the programs *)

GeneNames == <<"A", "B", "C", "D", "E", "F">>

\* positions genes are placed at
Sites == {Vec3D(0, 0, 0), Vec3D(1, 0, 0), Vec3D(1, 1, 0),
          Vec3D(boxMaximum, boxMaximum, boxMaximum)}

\* loadGenes: one Gene per row; orderInGenome is the row's index
Gene(i, position, value) ==
    [name |-> GeneNames[i], position |-> position, value |-> value,
     orderInGenome |-> i - 1]

\* insertion of pool index g into a vector sorted by orderInGenome
RECURSIVE InsertByOrder(_, _, _)
InsertByOrder(pool, sorted, g) ==
    IF sorted = <<>> THEN <<g>>
    ELSE IF pool[g].orderInGenome < pool[Head(sorted)].orderInGenome
         THEN <<g>> \o sorted
         ELSE <<Head(sorted)>> \o InsertByOrder(pool, Tail(sorted), g)

\* std::sort(sorted.begin(), sorted.end(), by orderInGenome)
RECURSIVE SortedByOrder(_, _)
SortedByOrder(pool, s) ==
    IF s = <<>> THEN <<>>
    ELSE InsertByOrder(pool, SortedByOrder(pool, Tail(s)), Head(s))

Range(seq) == {seq[i] : i \in DOMAIN seq}

\* Gene::acceptSample of each program
acceptSample(sig, pool, sampleGenes, minCount) ==
    IF sig = "ReplicationTiming"
    THEN /\ ~(Len(sampleGenes) < minCount)
         /\ LET sorted == SortedByOrder(pool, sampleGenes)
            IN \E i \in 2 .. Len(sorted) :
                  pool[sorted[i]].orderInGenome - pool[sorted[i - 1]].orderInGenome
                      >= minimumIndexSpaceJump
    ELSE Len(sampleGenes) >= minCount

-----------------------------------------------------------------------------
(* createWorkUnits *)

\* while (result.size() < count)
MoreWorkUnits_inclusive(size, count) == size <= count
MoreWorkUnits(size, count) == size < count

\* if (workUnit.genesInSphere.size() < minimumGeneCount) continue;
RejectSample_never(sampleGenes, minCount) == FALSE
RejectSample(sampleGenes, minCount) == Len(sampleGenes) < minCount

\* one iteration of the while loop
DrawSphere ==
    /\ pc = "createWorkUnits"
    /\ MoreWorkUnits(Len(workUnits), sampleCount)
    /\ \E c \in Centers :
          LET workUnit == [NewWorkUnit EXCEPT
                              !.genesInSphere = SphereSample(genes, c, sphereRadius)]
          IN /\ center' = c
             /\ sampled' = workUnit.genesInSphere
             /\ IF RejectSample(workUnit.genesInSphere, minimumGeneCount)
                THEN UNCHANGED <<workUnits, averageGenesInASphere>>
                ELSE /\ workUnits' = Append(workUnits, CopyWorkUnit(workUnit))
                     /\ averageGenesInASphere' =
                            averageGenesInASphere + Len(workUnit.genesInSphere)
    /\ UNCHANGED <<signal, genes, sphereRadius, minimumGeneCount, sampleCount, pc,
                   cur, r, drawn, geneCountToRandomStatistics>>
    /\ UNCHANGED laterVars

\* no sphere has been drawn (before the first draw, and once sphereSampler is gone)
NoCenter == Vec3D(-1, -1, -1)

\* the loop ends and createWorkUnits returns result; its locals are gone
ReturnWorkUnits ==
    /\ pc = "createWorkUnits"
    /\ ~MoreWorkUnits(Len(workUnits), sampleCount)
    /\ pc' = "returned"
    /\ averageGenesInASphere' = averageGenesInASphere \div sampleCount
    /\ center' = NoCenter
    /\ sampled' = <<>>
    /\ UNCHANGED <<signal, genes, sphereRadius, minimumGeneCount, sampleCount,
                   workUnits, cur, r, drawn, geneCountToRandomStatistics>>
    /\ UNCHANGED laterVars

-----------------------------------------------------------------------------
(* RandomGeneSampler *)

\* values of distribution(generator): uniform_int_distribution(0, pool.size() - 1)
PoolIndices(pool) == 0 .. Len(pool) - 1

\* the generator's outputs during one call of sample(count, genes)
Picks(pool, count) == [1 .. count -> PoolIndices(pool)]

\* for (int i = 0; i < count; i++) genes->push_back(&(*pool)[distribution(generator)]);
RECURSIVE RandomLoop(_, _, _, _)
RandomLoop(count, picks, i, acc) ==
    IF ~(i < count) THEN acc
    ELSE RandomLoop(count, picks, i + 1, Append(acc, picks[i + 1] + 1))

\* RandomGeneSampler::sample(count, genes), *genes being buffer before the call
RandomSample_keepBuffer(pool, count, buffer, picks) ==
    IF Len(pool) = 0 THEN buffer ELSE RandomLoop(count, picks, 0, buffer)
RandomSample(pool, count, buffer, picks) ==
    LET resized == SubSeq(buffer, 1, 0)   \* genes->resize(0)
    IN IF Len(pool) = 0 THEN resized ELSE RandomLoop(count, picks, 0, resized)

-----------------------------------------------------------------------------
(* sphereTestStatistic, Gene::randomIsMoreExtreme, Gene::calculatePValue *)

RECURSIVE SumTo(_, _)
SumTo(f, n) == IF n = 0 THEN 0 ELSE f[n] + SumTo(f, n - 1)

\* the double loop over the pairs i < j of a gene list, adding d[i][j]
SumOverPairs(n, d) ==
    SumTo([i \in 1 .. n |-> SumTo([j \in 1 .. n |-> IF j > i THEN d[i][j] ELSE 0], n)], n)
\* pairCount++ (count++) in the body of the double loop
PairCount(n) == SumOverPairs(n, [i \in 1 .. n |-> [j \in 1 .. n |-> 1]])

\* std::bitset tfMotifs of a gene: the bits set in its value
TfMotifs(value) == {b \in 0 .. value : (value \div (2 ^ b)) % 2 = 1}

\* Gene::jaccardDistance: count of the bits set in the exclusive or
JaccardDistance(a, b) ==
    Cardinality((TfMotifs(a.value) \ TfMotifs(b.value)) \cup
                (TfMotifs(b.value) \ TfMotifs(a.value)))

\* Gene::histonesDistance for histone profiles of one column: sqrt(d * d)
HistonesDistance(a, b) == Abs(b.value - a.value)

\* sphereTestStatistic of each program, for a non-empty gene list (an empty one
\* throws).  Replication timing: the standard deviation is kept as its square,
\* the variance; sqrt is monotone, so comparisons of the two agree.
sphereTestStatistic(sig, pool, list) ==
    LET n == Len(list)
        g(i) == pool[list[i]]
    IN CASE sig = "Promoter" ->
              IF n = 1 THEN Q(0, 1)
              ELSE QDiv(SumOverPairs(n, [i \in 1 .. n |-> [j \in 1 .. n |->
                                                HistonesDistance(g(i), g(j))]]),
                        PairCount(n))
         [] sig = "Motif" ->
              QDiv(SumOverPairs(n, [i \in 1 .. n |-> [j \in 1 .. n |->
                                           JaccardDistance(g(i), g(j))]]),
                   PairCount(n))
         [] sig = "ReplicationTiming" ->
              LET total == SumTo([i \in 1 .. n |-> g(i).value], n)
                  \* (value - average)^2 = (n * value - total)^2 / n^2
                  squares == SumTo([i \in 1 .. n |->
                                      (n * g(i).value - total) * (n * g(i).value - total)], n)
              IN QDiv(squares, n * n * n)

\* Gene::randomIsMoreExtreme of each program
randomIsMoreExtreme_strict(sig, randomStatistic, testStatistic) ==
    IF sig = "ReplicationTiming"
    THEN QLt(testStatistic, randomStatistic)
    ELSE QLt(randomStatistic, testStatistic)
randomIsMoreExtreme(sig, randomStatistic, testStatistic) ==
    IF sig = "ReplicationTiming"
    THEN QGe(randomStatistic, testStatistic)
    ELSE QLe(randomStatistic, testStatistic)

\* Gene::calculatePValue of each program: Motif (Jaccard distance) is 2-tailed
calculatePValue(sig, randomMoreExtremeOccurrences, totalRandomSamples) ==
    LET pValue == QDiv(randomMoreExtremeOccurrences, totalRandomSamples)
    IN IF sig = "Motif"
       THEN QMul(Q(2, 1), StdMin(pValue, QSub(Q(1, 1), pValue)))
       ELSE pValue

\* pValue = std::max(pValue, 1.0 / (double)randomSampleCount)
FloorPValue_none(pValue, randomSampleCount) == pValue
FloorPValue(pValue, randomSampleCount) == StdMax(pValue, QDiv(1, randomSampleCount))

\* for (int r = 0; r < randomSampleCount; r++)
MoreRandomSamples_inclusive(rr, randomSampleCount) == rr <= randomSampleCount
MoreRandomSamples(rr, randomSampleCount) == rr < randomSampleCount

\* drawn with one more entry under key k
Logged(log, k, entry) ==
    [x \in DOMAIN log \cup {k} |->
        IF x = k THEN (IF k \in DOMAIN log THEN Append(log[k], entry) ELSE <<entry>>)
        ELSE log[x]]

-----------------------------------------------------------------------------
(* WorkUnit::calculatePValue, called for every work unit                    *)
(* (extractPromoterFields: workUnit.calculatePValue(sampleCount))           *)

\* the programs of the per-unit variant enter their for loop over the work units
StartForLoop ==
    /\ pc = "returned"
    /\ signal = "Promoter"
    /\ pc' = "forWorkUnits"
    /\ cur' = 0
    /\ UNCHANGED <<averageGenesInASphere, signal, genes, sphereRadius,
                   minimumGeneCount, sampleCount,
                   workUnits, center, sampled, r, drawn, geneCountToRandomStatistics>>
    /\ UNCHANGED laterVars

\* calculatePValue of unit cur + 1 starts: the statistic in the sphere
EnterCalculatePValue ==
    /\ pc = "forWorkUnits"
    /\ cur < Len(workUnits)
    /\ workUnits' = [workUnits EXCEPT ![cur + 1].statisticInSphere =
                        sphereTestStatistic(signal, genes, workUnits[cur + 1].genesInSphere)]
    /\ r' = 0
    /\ pc' = "randomSamples"
    /\ UNCHANGED <<averageGenesInASphere, signal, genes, sphereRadius,
                   minimumGeneCount, sampleCount,
                   center, sampled, cur, drawn, geneCountToRandomStatistics>>
    /\ UNCHANGED laterVars

\* one iteration of the loop over the random samples
DrawRandomSample ==
    /\ pc = "randomSamples"
    /\ MoreRandomSamples(r, sampleCount)
    /\ LET u == workUnits[cur + 1]
       IN \E picks \in Picks(genes, Len(u.genesInSphere)) :
             LET randomGenes == RandomSample(genes, Len(u.genesInSphere), u.randomGenes, picks)
                 statisticInRandom == sphereTestStatistic(signal, genes, randomGenes)
             IN /\ workUnits' = [workUnits EXCEPT ![cur + 1] =
                       [u EXCEPT !.randomGenes = randomGenes,
                                 !.statisticInRandom = statisticInRandom,
                                 !.chanceWinCount =
                                     IF randomIsMoreExtreme(signal, statisticInRandom,
                                                            u.statisticInSphere)
                                     THEN u.chanceWinCount + 1 ELSE u.chanceWinCount]]
                /\ drawn' = Logged(drawn, cur + 1,
                                   [size |-> Len(randomGenes), statistic |-> statisticInRandom])
    /\ r' = r + 1
    /\ UNCHANGED <<averageGenesInASphere, signal, genes, sphereRadius,
                   minimumGeneCount, sampleCount, pc,
                   center, sampled, cur, geneCountToRandomStatistics>>
    /\ UNCHANGED laterVars

\* the loop is over: the p-value and its floor; calculatePValue returns
LeaveCalculatePValue ==
    /\ pc = "randomSamples"
    /\ ~MoreRandomSamples(r, sampleCount)
    /\ LET u == workUnits[cur + 1]
       IN workUnits' = [workUnits EXCEPT ![cur + 1].pValue =
                           FloorPValue(calculatePValue(signal, u.chanceWinCount, sampleCount),
                                       sampleCount)]
    /\ cur' = cur + 1
    /\ pc' = "forWorkUnits"
    /\ UNCHANGED <<averageGenesInASphere, signal, genes, sphereRadius,
                   minimumGeneCount, sampleCount,
                   center, sampled, r, drawn, geneCountToRandomStatistics>>
    /\ UNCHANGED laterVars

\* every work unit has its p-value
EndForLoop ==
    /\ pc = "forWorkUnits"
    /\ ~(cur < Len(workUnits))
    /\ pc' = "pValuesDone"
    /\ UNCHANGED <<averageGenesInASphere, signal, genes, sphereRadius,
                   minimumGeneCount, sampleCount,
                   workUnits, center, sampled, cur, r, drawn, geneCountToRandomStatistics>>
    /\ UNCHANGED laterVars

-----------------------------------------------------------------------------
(* The cached variant (extractMotifFields, extractReplicationTimingFields):  *)
(* the random statistics are drawn once per gene count                      *)

\* the programs of the cached variant enter their first loop over the work units
StartFillCache ==
    /\ pc = "returned"
    /\ signal \in {"Motif", "ReplicationTiming"}
    /\ pc' = "fillCache"
    /\ cur' = 0
    /\ UNCHANGED <<averageGenesInASphere, signal, genes, sphereRadius,
                   minimumGeneCount, sampleCount,
                   workUnits, center, sampled, r, drawn, geneCountToRandomStatistics>>
    /\ UNCHANGED laterVars

\* if (geneCountToRandomStatistics.contains(geneCount)) continue;
\* otherwise operator[] inserts an empty list and the inner loop starts
CacheLookup ==
    /\ pc = "fillCache"
    /\ cur < Len(workUnits)
    /\ LET geneCount == Len(workUnits[cur + 1].genesInSphere)
       IN IF geneCount \in DOMAIN geneCountToRandomStatistics
          THEN /\ cur' = cur + 1
               /\ UNCHANGED <<pc, r, geneCountToRandomStatistics>>
          ELSE /\ geneCountToRandomStatistics' =
                      [k \in DOMAIN geneCountToRandomStatistics \cup {geneCount} |->
                          IF k = geneCount THEN <<>> ELSE geneCountToRandomStatistics[k]]
               /\ r' = 0
               /\ pc' = "fillSamples"
               /\ UNCHANGED cur
    /\ UNCHANGED <<averageGenesInASphere, signal, genes, sphereRadius,
                   minimumGeneCount, sampleCount,
                   workUnits, center, sampled, drawn>>
    /\ UNCHANGED laterVars

\* for (int r = 0; r < sampleCount; r++) of the cache
MoreCachedSamples_inclusive(rr, count) == rr <= count
MoreCachedSamples(rr, count) == rr < count

\* one iteration of the inner loop: a random sample of geneCount genes
CacheRandomSample ==
    /\ pc = "fillSamples"
    /\ MoreCachedSamples(r, sampleCount)
    /\ LET u == workUnits[cur + 1]
           geneCount == Len(u.genesInSphere)
       IN \E picks \in Picks(genes, geneCount) :
             LET randomGenes == RandomSample(genes, geneCount, u.randomGenes, picks)
                 statisticInRandom == sphereTestStatistic(signal, genes, randomGenes)
             IN /\ workUnits' = [workUnits EXCEPT ![cur + 1].randomGenes = randomGenes]
                /\ geneCountToRandomStatistics' =
                       [geneCountToRandomStatistics EXCEPT
                           ![geneCount] = Append(@, statisticInRandom)]
                /\ drawn' = Logged(drawn, geneCount,
                                   [size |-> Len(randomGenes), statistic |-> statisticInRandom])
    /\ r' = r + 1
    /\ UNCHANGED <<averageGenesInASphere, signal, genes, sphereRadius,
                   minimumGeneCount, sampleCount, pc,
                   center, sampled, cur>>
    /\ UNCHANGED laterVars

\* the inner loop is over: on to the next work unit
CacheFilledForCount ==
    /\ pc = "fillSamples"
    /\ ~MoreCachedSamples(r, sampleCount)
    /\ cur' = cur + 1
    /\ pc' = "fillCache"
    /\ UNCHANGED <<averageGenesInASphere, signal, genes, sphereRadius,
                   minimumGeneCount, sampleCount,
                   workUnits, center, sampled, r, drawn, geneCountToRandomStatistics>>
    /\ UNCHANGED laterVars

\* the cache is complete: the loop over the spheres starts
EndFillCache ==
    /\ pc = "fillCache"
    /\ ~(cur < Len(workUnits))
    /\ pc' = "cachedPValues"
    /\ cur' = 0
    /\ UNCHANGED <<averageGenesInASphere, signal, genes, sphereRadius,
                   minimumGeneCount, sampleCount,
                   workUnits, center, sampled, r, drawn, geneCountToRandomStatistics>>
    /\ UNCHANGED laterVars

\* for (const double statisticInRandom : statsOnRandomSample)
\*     if (Gene::randomIsMoreExtreme(...)) workUnit.chanceWinCount++;
RECURSIVE CountChanceWins(_, _, _, _)
CountChanceWins(sig, statsOnRandomSample, statisticInSphere, chanceWinCount) ==
    IF statsOnRandomSample = <<>> THEN chanceWinCount
    ELSE CountChanceWins(sig, Tail(statsOnRandomSample), statisticInSphere,
                         IF randomIsMoreExtreme(sig, Head(statsOnRandomSample),
                                                statisticInSphere)
                         THEN chanceWinCount + 1 ELSE chanceWinCount)

\* one iteration of the loop over the spheres: the p-value of unit cur + 1;
\* statisticInSphere is a local of the loop body
CachedPValue ==
    /\ pc = "cachedPValues"
    /\ cur < Len(workUnits)
    /\ LET u == workUnits[cur + 1]
           statisticInSphere == sphereTestStatistic(signal, genes, u.genesInSphere)
           statsOnRandomSample == geneCountToRandomStatistics[Len(u.genesInSphere)]
           chanceWinCount == CountChanceWins(signal, statsOnRandomSample,
                                             statisticInSphere, u.chanceWinCount)
       IN workUnits' = [workUnits EXCEPT ![cur + 1] =
              [u EXCEPT !.chanceWinCount = chanceWinCount,
                        !.pValue = FloorPValue(
                            calculatePValue(signal, chanceWinCount, sampleCount),
                            sampleCount)]]
    /\ cur' = cur + 1
    /\ UNCHANGED <<averageGenesInASphere, signal, genes, sphereRadius,
                   minimumGeneCount, sampleCount, pc,
                   center, sampled, r, drawn, geneCountToRandomStatistics>>
    /\ UNCHANGED laterVars

\* every sphere has its p-value
EndCachedPValues ==
    /\ pc = "cachedPValues"
    /\ ~(cur < Len(workUnits))
    /\ pc' = "pValuesDone"
    /\ UNCHANGED <<averageGenesInASphere, signal, genes, sphereRadius,
                   minimumGeneCount, sampleCount,
                   workUnits, center, sampled, cur, r, drawn, geneCountToRandomStatistics>>
    /\ UNCHANGED laterVars

-----------------------------------------------------------------------------
(* Populations and the specifications *)

\* loadGenes: gene A at the origin, B one step from it, C at one of the sites
Population(positionOfC, valueOfB) ==
    <<Gene(1, Vec3D(0, 0, 0), 0), Gene(2, Vec3D(1, 0, 0), valueOfB),
      Gene(3, positionOfC, MaxValue)>>

Pools == {Population(p, v) : p \in Sites, v \in 0 .. MaxValue}

\* clusterByGeneOverlap has not been called: the caller's locals and the table
NotClustered ==
    /\ result = <<>>
    /\ overlapThreshold = Q(5, 100)
    /\ maximumOverlapRatio = Q(0, 1)
    /\ merges = 0
    /\ clusters = <<>>
    /\ genesUsed = {}
    /\ table = {}

\* no parallel loop is running: no thread, no generator seeded, no table built
NotParallel ==
    /\ workers = <<>>
    /\ started = {}
    /\ generators = <<>>
    /\ taxonFrequency = <<>>
    /\ accesses = {}

\* the program's significance threshold; no single call has been made
NotCalled ==
    /\ pAdjThreshold = Q(5, 100)
    /\ statisticCall = <<>>
    /\ calls = 0

Init ==
    /\ signal \in Signals
    /\ genes \in Pools
    /\ sphereRadius \in 1 .. MaxRadius
    /\ minimumGeneCount \in 1 .. MaxMinimumGeneCount
    /\ sampleCount \in 1 .. MaxSampleCount
    /\ pc = "createWorkUnits"
    /\ workUnits = <<>>
    /\ averageGenesInASphere = 0
    /\ center = NoCenter
    /\ sampled = <<>>
    /\ cur = 0
    /\ r = 0
    /\ drawn = <<>>
    /\ geneCountToRandomStatistics = <<>>
    /\ benjaminiCalls = <<>>
    /\ NotClustered
    /\ NotParallel
    /\ NotCalled

Next == DrawSphere \/ ReturnWorkUnits

Spec == Init /\ [][Next]_vars

\* the loop of createWorkUnits keeps running while its condition holds
FairSpec == Spec /\ WF_vars(DrawSphere) /\ WF_vars(ReturnWorkUnits)

-----------------------------------------------------------------------------
(* A whole run: createWorkUnits, then the p-value of every work unit *)

\* populations of the whole runs: C in the far corner
RunPools ==
    {pool \in Pools : pool[3].position = Vec3D(boxMaximum, boxMaximum, boxMaximum)}

RunInit == Init /\ genes \in RunPools

PValueNext ==
    \/ StartForLoop \/ EnterCalculatePValue \/ DrawRandomSample
    \/ LeaveCalculatePValue \/ EndForLoop
    \/ StartFillCache \/ CacheLookup \/ CacheRandomSample \/ CacheFilledForCount
    \/ EndFillCache \/ CachedPValue \/ EndCachedPValues

RunNext == Next \/ PValueNext

RunSpec == RunInit /\ [][RunNext]_vars

-----------------------------------------------------------------------------
(* benjamini *)

\* the comparison std::sort is given: a.pValue < b.pValue
pValueCompare_descending(a, b) == QLt(b.pValue, a.pValue)
pValueCompare(a, b) == QLt(a.pValue, b.pValue)

\* the orders std::sort can leave the elements of v at the indices in rest in:
\* each element is followed by none that compares less than it
RECURSIVE Orderings(_, _)
Orderings(v, rest) ==
    IF rest = {} THEN {<<>>}
    ELSE UNION {{<<first>> \o others : others \in Orderings(v, rest \ {first})} :
                   first \in {k \in rest : \A m \in rest : ~pValueCompare(v[m], v[k])}}

\* std::sort(workUnits.begin(), workUnits.end(), pValueCompare).  The order
\* of elements that compare equal is the implementation's, and so is the set
\* of elements that pass through a temporary, which is made with the copy
\* constructor.  A range of one element is left as it is.
SortByPValue(v) ==
    LET \* a copy differs from the unit only once its statistics are set
        temporaries == IF Len(v) <= 1 \/ \A i \in DOMAIN v : CopyWorkUnit(v[i]) = v[i]
                       THEN {{}} ELSE SUBSET (1 .. Len(v))
    IN {[i \in 1 .. Len(v) |-> IF i \in copied THEN CopyWorkUnit(v[f[i]]) ELSE v[f[i]]] :
           f \in Orderings(v, DOMAIN v), copied \in temporaries}

\* workUnit.rank = i + 1, for the loop index i (0-based)
BenjaminiRank(i) == i + 1

\* workUnit.pValue * workUnits.size() / (double)workUnit.rank
ScaledPValue(pValue, size, rank) ==
    IF IsNaN(pValue) \/ rank = 0 THEN NaN ELSE Q(pValue.num * size, pValue.den * rank)

\* workUnit.adjustedPValue = std::min(previousPValue, ...)
AdjustedPValue_noMinimum(previousPValue, workUnit, size) ==
    ScaledPValue(workUnit.pValue, size, workUnit.rank)
AdjustedPValue(previousPValue, workUnit, size) ==
    StdMin(previousPValue, ScaledPValue(workUnit.pValue, size, workUnit.rank))

\* the two assignments of the loop body to the work unit
Adjusted_overwritesPValue(workUnit, rank, previousPValue, size) ==
    LET ranked == [workUnit EXCEPT !.rank = rank]
        adjusted == AdjustedPValue(previousPValue, ranked, size)
    IN [ranked EXCEPT !.adjustedPValue = adjusted, !.pValue = adjusted]
Adjusted(workUnit, rank, previousPValue, size) ==
    LET ranked == [workUnit EXCEPT !.rank = rank]
    IN [ranked EXCEPT !.adjustedPValue = AdjustedPValue(previousPValue, ranked, size)]

\* for (int i = workUnits.size() - 1; i >= 0; i--)
RECURSIVE BenjaminiLoop(_, _, _)
BenjaminiLoop(v, i, previousPValue) ==
    IF ~(i >= 0) THEN v
    ELSE LET workUnit == Adjusted(v[i + 1], BenjaminiRank(i), previousPValue, Len(v))
         IN BenjaminiLoop([v EXCEPT ![i + 1] = workUnit], i - 1, workUnit.adjustedPValue)

\* benjamini(workUnits) for a non-empty vector: the vectors it can leave
\* (workUnits.back() of an empty vector is undefined; the programs pass the
\* sampleCount units of createWorkUnits)
BenjaminiResults(v) ==
    {BenjaminiLoop(sorted, Len(sorted) - 1, sorted[Len(sorted)].pValue) :
        sorted \in SortByPValue(v)}

\* the variables benjamini leaves alone
notAdjusted == <<signal, genes, sphereRadius, minimumGeneCount, sampleCount,
                 averageGenesInASphere, center, sampled, cur, r, drawn,
                 geneCountToRandomStatistics, clusterVars, parVars, callVars>>

\* benjamini(workUnits), called by the program once the p-values are there
Benjamini ==
    /\ pc = "pValuesDone"
    /\ Len(workUnits) > 0
    /\ \E outcome \in BenjaminiResults(workUnits) :
          /\ workUnits' = outcome
          /\ benjaminiCalls' = Append(benjaminiCalls,
                                      [argument |-> workUnits, result |-> outcome])
    /\ pc' = "adjusted"
    /\ UNCHANGED notAdjusted

\* benjamini called once more, on the vector it left
BenjaminiAgain ==
    /\ pc = "adjusted"
    /\ \E outcome \in BenjaminiResults(workUnits) :
          /\ workUnits' = outcome
          /\ benjaminiCalls' = Append(benjaminiCalls,
                                      [argument |-> workUnits, result |-> outcome])
    /\ pc' = "adjustedAgain"
    /\ UNCHANGED notAdjusted

\* benjamini called once more, on a copy of the vector the first call was given
BenjaminiSameInput ==
    /\ pc = "adjustedAgain"
    /\ LET unsorted == benjaminiCalls[1].argument
       IN \E outcome \in BenjaminiResults(unsorted) :
             /\ workUnits' = outcome
             /\ benjaminiCalls' = Append(benjaminiCalls,
                                         [argument |-> unsorted, result |-> outcome])
    /\ pc' = "adjustedSameInput"
    /\ UNCHANGED notAdjusted

\* largest number of trials handed to benjamini
MaxTrials == 4

\* raw p-values of a run of 1000 random draws
PValues == {Q(1, 1000), Q(10, 1000), Q(100, 1000), Q(500, 1000), Q(1000, 1000)}

\* the population of the trials, and the centres of their spheres of radius 1:
\* the spheres {A, B} and {B, C} in turn
TrialPool == <<Gene(1, Vec3D(0, 0, 0), 0), Gene(2, Vec3D(1, 0, 0), 0),
               Gene(3, Vec3D(1, 1, 0), 1)>>
TrialCenter(i) == IF i % 2 = 1 THEN Vec3D(0, 0, 0) ELSE Vec3D(1, 1, 0)

\* the work unit of trial i once its p-value is computed
Trial(i, pValue) ==
    [NewWorkUnit EXCEPT !.genesInSphere = SphereSample(TrialPool, TrialCenter(i), 1),
                        !.pValue = pValue]

\* the state in which the programs call benjamini
BenjaminiInit ==
    /\ signal = "Promoter"
    /\ genes = TrialPool
    /\ sphereRadius = 1
    /\ minimumGeneCount = 1
    /\ \E n \in 1 .. MaxTrials :
          /\ sampleCount = n
          /\ \E p \in [1 .. n -> PValues] : workUnits = [i \in 1 .. n |-> Trial(i, p[i])]
    /\ pc = "pValuesDone"
    /\ averageGenesInASphere = 0
    /\ center = NoCenter
    /\ sampled = <<>>
    /\ cur = 0
    /\ r = 0
    /\ drawn = <<>>
    /\ geneCountToRandomStatistics = <<>>
    /\ benjaminiCalls = <<>>
    /\ NotClustered
    /\ NotParallel
    /\ NotCalled

BenjaminiNext == Benjamini \/ BenjaminiAgain \/ BenjaminiSameInput

BenjaminiSpec == BenjaminiInit /\ [][BenjaminiNext]_vars

-----------------------------------------------------------------------------
(* clusterByGeneOverlap *)

\* the loop over the work units: the names of the genes of every sphere
GeneLists(pool, units) ==
    [i \in DOMAIN units |-> {pool[g].name : g \in Range(units[i].genesInSphere)}]

\* std::min on int
StdMinInt(a, b) == IF b < a THEN b ELSE a

\* the pairs (i, j) the two for loops visit from (i, j) on, in order (0-based)
RECURSIVE PairsInOrder(_, _, _)
PairsInOrder(n, i, j) ==
    IF ~(i < n) THEN <<>>
    ELSE IF ~(j < n) THEN PairsInOrder(n, i + 1, i + 2)
    ELSE <<<<i, j>>>> \o PairsInOrder(n, i, j + 1)

\* (double)overlapCount / (double)minSize: 0.0 / 0.0 when a set is empty
OverlapRatio(a, b) ==
    QDiv(Cardinality(a \cap b), StdMinInt(Cardinality(a), Cardinality(b)))

\* the locals of one iteration of while (true) before the two for loops
NoBestPair ==
    [maximumOverlapRatio |-> Q(0, 1), bestGenePair |-> <<0, 1>>, mergedCluster |-> {}]

\* if (overlapRatio > *maximumOverlapRatio)
IsBetterPair_orEqual(overlapRatio, maximum) == QLe(maximum, overlapRatio)
IsBetterPair(overlapRatio, maximum) == QLt(maximum, overlapRatio)

\* the two for loops over the pairs left to visit
RECURSIVE FindBestPair(_, _, _)
FindBestPair(res, pairs, best) ==
    IF pairs = <<>> THEN best
    ELSE LET i == Head(pairs)[1]
             j == Head(pairs)[2]
             overlapRatio == OverlapRatio(res[i + 1], res[j + 1])
         IN FindBestPair(res, Tail(pairs),
                         IF IsBetterPair(overlapRatio, best.maximumOverlapRatio)
                         THEN [maximumOverlapRatio |-> overlapRatio,
                               bestGenePair |-> <<i, j>>,
                               mergedCluster |-> res[i + 1] \cup res[j + 1]]
                         ELSE best)

\* the locals after the two for loops of an iteration over res
BestPair(res) == FindBestPair(res, PairsInOrder(Len(res), 0, 1), NoBestPair)

\* if (*maximumOverlapRatio < overlapThreshold) break;
StopClustering_inclusive(maximum, threshold) == QLe(maximum, threshold)
StopClustering(maximum, threshold) == QLt(maximum, threshold)

\* result.pop_back()
PopBack(v) == SubSeq(v, 1, Len(v) - 1)

\* the merge, for a vector of at least two sets:
\* result[second] = result.back(); pop_back; result[first] = result.back();
\* pop_back; push_back(mergedCluster)
ApplyMerge(res, best) ==
    LET first == best.bestGenePair[1]
        second == best.bestGenePair[2]
        withoutSecond == PopBack([res EXCEPT ![second + 1] = res[Len(res)]])
        withoutFirst == PopBack([withoutSecond EXCEPT
                                    ![first + 1] = withoutSecond[Len(withoutSecond)]])
    IN Append(withoutFirst, best.mergedCluster)

\* the variables clustering, de-duplication and writing leave alone
notClustered == <<signal, genes, sphereRadius, minimumGeneCount, sampleCount,
                  workUnits, averageGenesInASphere, center, sampled, cur, r, drawn,
                  geneCountToRandomStatistics, benjaminiCalls, parVars, callVars>>

\* clusterByGeneOverlap is called: result is filled from the work units
StartClustering ==
    /\ pc = "filtered"
    /\ result' = GeneLists(genes, workUnits)
    /\ merges' = 0
    /\ pc' = "clustering"
    /\ UNCHANGED <<overlapThreshold, maximumOverlapRatio, clusters, genesUsed, table>>
    /\ UNCHANGED notClustered

\* an iteration of while (true) that ends in break: result is returned
ClusterReturn ==
    /\ pc = "clustering"
    /\ LET best == BestPair(result)
       IN /\ StopClustering(best.maximumOverlapRatio, overlapThreshold)
          /\ maximumOverlapRatio' = best.maximumOverlapRatio
    /\ clusters' = result
    /\ result' = <<>>
    /\ pc' = "clustered"
    /\ UNCHANGED <<overlapThreshold, merges, genesUsed, table>>
    /\ UNCHANGED notClustered

\* an iteration of while (true) that applies the merge
ClusterMerge ==
    /\ pc = "clustering"
    /\ LET best == BestPair(result)
       IN /\ ~StopClustering(best.maximumOverlapRatio, overlapThreshold)
          /\ Len(result) >= 2
          /\ maximumOverlapRatio' = best.maximumOverlapRatio
          /\ result' = ApplyMerge(result, best)
    /\ merges' = merges + 1
    /\ UNCHANGED <<pc, overlapThreshold, clusters, genesUsed, table>>
    /\ UNCHANGED notClustered

\* an iteration of while (true) that does not break on fewer than two sets:
\* result[bestGenePair.second], with bestGenePair (0, 1), is out of range.
\* A build with Qt's assertions aborts; without them the assignment goes
\* through outside the vector.
ClusterOutOfRange ==
    /\ pc = "clustering"
    /\ LET best == BestPair(result)
       IN /\ ~StopClustering(best.maximumOverlapRatio, overlapThreshold)
          /\ Len(result) < 2
          /\ maximumOverlapRatio' = best.maximumOverlapRatio
    /\ pc' \in {"aborted", "corrupted"}
    /\ UNCHANGED <<result, overlapThreshold, merges, clusters, genesUsed, table>>
    /\ UNCHANGED notClustered

-----------------------------------------------------------------------------
(* The callers after clusterByGeneOverlap: sort, de-duplication, writeClusters *)

\* the comparison std::sort is given: a.size() < b.size()
SizeCompare_descending(a, b) == Cardinality(b) < Cardinality(a)
SizeCompare(a, b) == Cardinality(a) < Cardinality(b)

\* the orders std::sort can leave the sets of v at the indices in rest in
RECURSIVE SizeOrderings(_, _)
SizeOrderings(v, rest) ==
    IF rest = {} THEN {<<>>}
    ELSE UNION {{<<first>> \o others : others \in SizeOrderings(v, rest \ {first})} :
                   first \in {k \in rest : \A m \in rest : ~SizeCompare(v[m], v[k])}}

\* std::sort(clusters.begin(), clusters.end(), by size)
SortBySize(v) == {[i \in 1 .. Len(v) |-> v[f[i]]] : f \in SizeOrderings(v, DOMAIN v)}

\* cluster.subtract(genesUsed)
Subtract_nothing(cluster, used) == cluster
Subtract(cluster, used) == cluster \ used

\* for (QSet<QString> &cluster : clusters) from index i on (1-based)
RECURSIVE CleanupLoop(_, _, _)
CleanupLoop(v, i, used) ==
    IF i > Len(v) THEN [clusters |-> v, genesUsed |-> used]
    ELSE LET cluster == Subtract(v[i], used)
         IN CleanupLoop([v EXCEPT ![i] = cluster], i + 1, used \cup cluster)

\* QString fieldName = 'A' + i
FieldName(i) == 65 + i

\* the inserts of writeClusters for the clusters from index i on (0-based).
\* Gene is the primary key: exec() fails on a gene that has a row, and
\* writeClusters throws.  A QSet is iterated in no particular order.
RECURSIVE InsertLoop(_, _, _)
InsertLoop(geneClusters, i, rows) ==
    IF ~(i < Len(geneClusters)) THEN {[rows |-> rows, thrown |-> FALSE]}
    ELSE LET cluster == geneClusters[i + 1]
             keys == {row.Gene : row \in rows}
             inserted(some) == rows \cup {[Gene |-> g, Field |-> FieldName(i)] : g \in some}
         IN IF cluster \cap keys = {}
            THEN InsertLoop(geneClusters, i + 1, inserted(cluster))
            ELSE {[rows |-> inserted(some), thrown |-> TRUE] :
                     some \in SUBSET (cluster \ keys)}

\* std::sort of the clusters by size
SortClusters ==
    /\ pc = "clustered"
    /\ clusters' \in SortBySize(clusters)
    /\ pc' = "sorted"
    /\ UNCHANGED <<result, overlapThreshold, maximumOverlapRatio, merges, genesUsed, table>>
    /\ UNCHANGED notClustered

\* cleanup of duplicate genes: the smaller cluster retains all its genes
CleanupDuplicateGenes ==
    /\ pc = "sorted"
    /\ LET cleaned == CleanupLoop(clusters, 1, {})
       IN /\ clusters' = cleaned.clusters
          /\ genesUsed' = cleaned.genesUsed
    /\ pc' = "deduplicated"
    /\ UNCHANGED <<result, overlapThreshold, maximumOverlapRatio, merges, table>>
    /\ UNCHANGED notClustered

\* if (!clusters.isEmpty()) db::writeClusters(clusters, db, tableName):
\* the table is dropped, created and filled
WriteClusters ==
    /\ pc = "deduplicated"
    /\ clusters # <<>>
    /\ \E written \in InsertLoop(clusters, 0, {}) :
          /\ table' = written.rows
          /\ pc' = IF written.thrown THEN "writeFailed" ELSE "written"
    /\ UNCHANGED <<result, overlapThreshold, maximumOverlapRatio, merges, clusters,
                   genesUsed>>
    /\ UNCHANGED notClustered

\* else: no clusters found, no table is created
NoClustersFound ==
    /\ pc = "deduplicated"
    /\ clusters = <<>>
    /\ pc' = "notWritten"
    /\ UNCHANGED clusterVars
    /\ UNCHANGED notClustered

\* largest number of significant spheres handed to clusterByGeneOverlap
MaxSpheres == 3

\* five genes in a row; a sphere captures a run of consecutive genes
ClusterPool == [i \in 1 .. 5 |-> Gene(i, Vec3D(i - 1, 0, 0), 0)]
Run(a, b) == [k \in 1 .. (b - a + 1) |-> a + k - 1]
\* the spheres tried: every run of two to four genes, and the genes C and E alone
Spheres == {Run(a, b) : a \in 1 .. 5, b \in 1 .. 5} \ {<<>>, Run(1, 5), Run(1, 1), Run(2, 2), Run(4, 4)}

\* overlap thresholds: none, that of the programs, and two around 2/3
Thresholds == {Q(0, 1), Q(5, 100), Q(1, 2), Q(7, 10)}

\* the state in which the programs call clusterByGeneOverlap
ClusterInit ==
    /\ signal = "Promoter"
    /\ genes = ClusterPool
    /\ sphereRadius = 1
    /\ minimumGeneCount = 1
    /\ sampleCount = MaxSpheres
    /\ \E n \in 0 .. MaxSpheres :
          \E s \in [1 .. n -> Spheres] :
             workUnits = [i \in 1 .. n |-> [NewWorkUnit EXCEPT !.genesInSphere = s[i]]]
    /\ pc = "filtered"
    /\ averageGenesInASphere = 0
    /\ center = NoCenter
    /\ sampled = <<>>
    /\ cur = 0
    /\ r = 0
    /\ drawn = <<>>
    /\ geneCountToRandomStatistics = <<>>
    /\ benjaminiCalls = <<>>
    /\ result = <<>>
    /\ overlapThreshold \in Thresholds
    /\ maximumOverlapRatio = Q(0, 1)
    /\ merges = 0
    /\ clusters = <<>>
    /\ genesUsed = {}
    /\ table = {}
    /\ NotParallel
    /\ NotCalled

ClusterNext ==
    \/ StartClustering \/ ClusterReturn \/ ClusterMerge \/ ClusterOutOfRange
    \/ SortClusters \/ CleanupDuplicateGenes \/ WriteClusters \/ NoClustersFound

ClusterSpec == ClusterInit /\ [][ClusterNext]_vars

-----------------------------------------------------------------------------
(* The parallel p-value loop of extractConservationFields (TAXON_TEST):      *)
(* #pragma omp parallel for over the work units                              *)

\* largest sampleCount (spheres, and random draws per sphere) of the loop
MaxParallelSamples == 2

\* std::default_random_engine, a multiplicative congruential engine, scaled
\* down: the next state of the engine
Advance(state) == (3 * state) % 7

\* distribution(generator): the output of the advanced engine mapped to
\* 0 .. pool.size() - 1
Distribution(pool, state) == Advance(state) % Len(pool)

\* the outputs of the count calls of distribution(generator) in
\* RandomGeneSampler::sample, and the engine they leave
RECURSIVE DrawLoop(_, _, _, _, _)
DrawLoop(pool, count, i, state, acc) ==
    IF ~(i < count) THEN [picks |-> acc, state |-> state]
    ELSE DrawLoop(pool, count, i + 1, Advance(state),
                  Append(acc, Distribution(pool, state)))

\* if (pool->isEmpty()) return; before any draw
Draws(pool, count, state) ==
    IF Len(pool) = 0 THEN [picks |-> <<>>, state |-> state]
    ELSE DrawLoop(pool, count, 0, state, <<>>)

\* the taxon of a gene is its value; the general population taxon frequency
TaxaOf(pool, list) == {pool[list[i]].value : i \in DOMAIN list}
TaxonFrequencyOf(pool) ==
    [taxon \in {pool[i].value : i \in DOMAIN pool} |->
        Q(Cardinality({i \in DOMAIN pool : pool[i].value = taxon}), Len(pool))]

\* taxonFrequency[taxon] of the non-const QMap: a missing key is inserted
\* with the value 0.0
Lookup(map, key) == IF key \in DOMAIN map THEN map[key] ELSE Q(0, 1)
AfterLookups(map, keys) == [key \in DOMAIN map \cup keys |-> Lookup(map, key)]

\* std::abs(log(enrichment)) is kept as max(enrichment, 1 / enrichment), which
\* orders as it does; Q(1, 0) is the infinity of an enrichment over 0.0
Infinity == Q(1, 0)
AbsLogEnrichment(inGroup, groupSize, inPopulation) ==
    LET num == inGroup * inPopulation.den
        den == groupSize * inPopulation.num
    IN IF den = 0 THEN Infinity
       ELSE IF num >= den THEN Q(num, den) ELSE Q(den, num)

\* a < b for statistics that may be infinite
TaxonLess(a, b) ==
    IF a.den = 0 THEN FALSE ELSE IF b.den = 0 THEN TRUE ELSE QLt(a, b)

\* sphereTestStatistic of part_006 (TAXON_TEST) for a non-empty gene list:
\* bestLogEnrichment, 0.0 (here 1) for a single gene
TaxonTestStatistic(pool, list, frequency) ==
    IF Len(list) = 1 THEN Q(1, 1)
    ELSE LET enrichments ==
                 {AbsLogEnrichment(
                      Cardinality({i \in DOMAIN list : pool[list[i]].value = taxon}),
                      Len(list), Lookup(frequency, taxon)) :
                  taxon \in TaxaOf(pool, list)} \cup {Q(1, 1)}
         IN CHOOSE best \in enrichments :
                \A other \in enrichments : ~TaxonLess(best, other)

\* Gene::randomIsMoreExtreme of part_006 (TAXON_TEST): randomStatistic >= testStatistic
TaxonIsMoreExtreme(randomStatistic, testStatistic) ==
    ~TaxonLess(randomStatistic, testStatistic)

\* a team of two threads (the accesses of every two threads are compared),
\* and a thread outside an iteration
Threads == {1, 2}
Idle == [unit |-> 0, at |-> "idle", r |-> 0]

\* locations: a member of work unit i, and an object shared by the threads
Member(i, member) == <<i, member>>
Shared(object) == <<0, object>>

\* the engine that the randomSampler of work unit i draws from
GeneratorOf_shared(i) == Member(1, "randomSampler")
GeneratorOf(i) == Member(i, "randomSampler")

\* accesses of one kind by thread t in the iteration of unit i
Access(t, i, kind, locations) ==
    {[thread |-> t, unit |-> i, kind |-> kind, location |-> l] : l \in locations}

\* the accesses of sphereTestStatistic(list member of unit i): the list, and
\* for more than one gene the genes pointed to and the global taxonFrequency,
\* which operator[] writes when a taxon is missing
StatisticAccesses(t, i, member, list) ==
    Access(t, i, "read", {Member(i, member)}) \cup
    (IF Len(list) = 1 THEN {}
     ELSE Access(t, i, "read", {Shared("genes")}) \cup
          Access(t, i,
                 IF TaxaOf(genes, list) \subseteq DOMAIN taxonFrequency
                 THEN "read" ELSE "write",
                 {Shared("taxonFrequency")}))

\* what the parallel loop leaves alone
notParallel == <<signal, genes, sphereRadius, minimumGeneCount, sampleCount,
                 averageGenesInASphere, center, sampled, cur, r, drawn,
                 geneCountToRandomStatistics, benjaminiCalls, clusterVars, callVars>>

\* a thread of the team is handed an iteration i of the for loop:
\* WorkUnit<Gene> &workUnit = workUnits[i]; workUnit.calculatePValue(sampleCount)
TakeIteration(t) ==
    /\ pc = "parallelFor"
    /\ workers[t].at = "idle"
    /\ \E i \in DOMAIN workUnits \ started :
          /\ workers' = [workers EXCEPT ![t] =
                            [unit |-> i, at |-> "statisticInSphere", r |-> 0]]
          /\ started' = started \cup {i}
          /\ accesses' = accesses \cup
                 Access(t, i, "read", {Shared("workUnits"), Shared("sampleCount")})
    /\ UNCHANGED <<pc, workUnits, generators, taxonFrequency, notParallel>>

\* statisticInSphere = sphereTestStatistic(genesInSphere);
SphereStatistic(t) ==
    /\ pc = "parallelFor"
    /\ workers[t].at = "statisticInSphere"
    /\ LET i == workers[t].unit
           list == workUnits[i].genesInSphere
       IN /\ workUnits' = [workUnits EXCEPT ![i].statisticInSphere =
                              TaxonTestStatistic(genes, list, taxonFrequency)]
          /\ taxonFrequency' =
                 IF Len(list) = 1 THEN taxonFrequency
                 ELSE AfterLookups(taxonFrequency, TaxaOf(genes, list))
          /\ accesses' = accesses \cup
                 StatisticAccesses(t, i, "genesInSphere", list) \cup
                 Access(t, i, "write", {Member(i, "statisticInSphere")})
    /\ workers' = [workers EXCEPT ![t].at = "loop"]
    /\ UNCHANGED <<pc, started, generators, notParallel>>

\* r < randomSampleCount:
\* randomSampler.sample(genesInSphere.size(), &randomGenes);
SampleRandom(t) ==
    /\ pc = "parallelFor"
    /\ workers[t].at = "loop"
    /\ MoreRandomSamples(workers[t].r, sampleCount)
    /\ LET i == workers[t].unit
           u == workUnits[i]
           engine == GeneratorOf(i)
           draws == Draws(genes, Len(u.genesInSphere), generators[engine].state)
       IN /\ generators' = [generators EXCEPT ![engine].state = draws.state]
          /\ workUnits' = [workUnits EXCEPT ![i].randomGenes =
                 RandomSample(genes, Len(u.genesInSphere), u.randomGenes, draws.picks)]
          /\ accesses' = accesses \cup
                 Access(t, i, "read", {Member(i, "genesInSphere"), Shared("genes")}) \cup
                 Access(t, i, "write", {engine, Member(i, "randomGenes")})
    /\ workers' = [workers EXCEPT ![t].at = "statisticInRandom"]
    /\ UNCHANGED <<pc, started, taxonFrequency, notParallel>>

\* statisticInRandom = sphereTestStatistic(randomGenes);
RandomStatistic(t) ==
    /\ pc = "parallelFor"
    /\ workers[t].at = "statisticInRandom"
    /\ LET i == workers[t].unit
           list == workUnits[i].randomGenes
       IN /\ workUnits' = [workUnits EXCEPT ![i].statisticInRandom =
                              TaxonTestStatistic(genes, list, taxonFrequency)]
          /\ taxonFrequency' =
                 IF Len(list) = 1 THEN taxonFrequency
                 ELSE AfterLookups(taxonFrequency, TaxaOf(genes, list))
          /\ accesses' = accesses \cup
                 StatisticAccesses(t, i, "randomGenes", list) \cup
                 Access(t, i, "write", {Member(i, "statisticInRandom")})
    /\ workers' = [workers EXCEPT ![t].at = "compare"]
    /\ UNCHANGED <<pc, started, generators, notParallel>>

\* if (Gene::randomIsMoreExtreme(statisticInRandom, statisticInSphere))
\*     chanceWinCount++;   and r++ of the for loop
CompareStatistics(t) ==
    /\ pc = "parallelFor"
    /\ workers[t].at = "compare"
    /\ LET i == workers[t].unit
           u == workUnits[i]
           wins == TaxonIsMoreExtreme(u.statisticInRandom, u.statisticInSphere)
       IN /\ workUnits' = [workUnits EXCEPT ![i].chanceWinCount =
                              IF wins THEN @ + 1 ELSE @]
          /\ accesses' = accesses \cup
                 Access(t, i, "read", {Member(i, "statisticInRandom"),
                                       Member(i, "statisticInSphere")}) \cup
                 (IF wins THEN Access(t, i, "write", {Member(i, "chanceWinCount")})
                  ELSE {})
    /\ workers' = [workers EXCEPT ![t].at = "loop", ![t].r = @ + 1]
    /\ UNCHANGED <<pc, started, generators, taxonFrequency, notParallel>>

\* the loop is over: pValue = Gene::calculatePValue(chanceWinCount, randomSampleCount);
\* pValue = std::max(pValue, 1.0 / (double)randomSampleCount); the iteration ends
FinishPValue(t) ==
    /\ pc = "parallelFor"
    /\ workers[t].at = "loop"
    /\ ~MoreRandomSamples(workers[t].r, sampleCount)
    /\ LET i == workers[t].unit
       IN /\ workUnits' = [workUnits EXCEPT ![i].pValue =
                 FloorPValue(calculatePValue(signal, workUnits[i].chanceWinCount,
                                             sampleCount),
                             sampleCount)]
          /\ accesses' = accesses \cup
                 Access(t, i, "read", {Member(i, "chanceWinCount")}) \cup
                 Access(t, i, "write", {Member(i, "pValue")})
    /\ workers' = [workers EXCEPT ![t] = Idle]
    /\ UNCHANGED <<pc, started, generators, taxonFrequency, notParallel>>

\* every iteration is done: the threads join at the end of the parallel region
EndParallelFor ==
    /\ pc = "parallelFor"
    /\ started = DOMAIN workUnits
    /\ \A t \in Threads : workers[t].at = "idle"
    /\ pc' = "pValuesDone"
    /\ UNCHANGED <<workUnits, parVars, notParallel>>

\* a pool of four genes of two taxa
ParallelPool == [i \in 1 .. 4 |-> Gene(i, Vec3D(i - 1, 0, 0), i \div 3)]

\* the gene lists of the spheres, and the seeds std::random_device gives
ParallelSpheres == {<<1, 2>>, <<2, 3>>, <<3, 4>>}
Seeds == {1, 2}

\* the state before the parallel loop of a program with the genes of pool and
\* a sampleCount up to maxSamples, but for its significance threshold: the
\* units createWorkUnits returned, each with the engine its randomSampler was
\* seeded with, and the global table
ParallelStart(pool, maxSamples) ==
    /\ signal = "Taxon"
    /\ genes = pool
    /\ sphereRadius = 1
    /\ minimumGeneCount = 1
    /\ sampleCount \in 1 .. maxSamples
    /\ \E s \in [1 .. sampleCount -> ParallelSpheres] :
          workUnits = [i \in 1 .. sampleCount |->
                          [NewWorkUnit EXCEPT !.genesInSphere = s[i]]]
    /\ pc = "parallelFor"
    /\ averageGenesInASphere = 0
    /\ center = NoCenter
    /\ sampled = <<>>
    /\ cur = 0
    /\ r = 0
    /\ drawn = <<>>
    /\ geneCountToRandomStatistics = <<>>
    /\ benjaminiCalls = <<>>
    /\ NotClustered
    /\ workers = [t \in Threads |-> Idle]
    /\ started = {}
    /\ \E seed \in [1 .. sampleCount -> Seeds] :
          generators = [l \in {Member(i, "randomSampler") : i \in 1 .. sampleCount} |->
                           [seed |-> seed[l[1]], state |-> seed[l[1]]]]
    /\ taxonFrequency = TaxonFrequencyOf(genes)
    /\ accesses = {}

\* the parallel loop of the program as it is configured
ParallelInit == ParallelStart(ParallelPool, MaxParallelSamples) /\ NotCalled

ParallelNext ==
    \/ \E t \in Threads :
          \/ TakeIteration(t)
          \/ SphereStatistic(t)
          \/ SampleRandom(t)
          \/ RandomStatistic(t)
          \/ CompareStatistics(t)
          \/ FinishPValue(t)
    \/ EndParallelFor

ParallelSpec == ParallelInit /\ [][ParallelNext]_vars

-----------------------------------------------------------------------------
(* sphereTestStatistic of each program, as a function of its argument *)

\* longest gene list passed to the statistic
MaxListLen == 2

\* the statistic of the program of signal sig for a non-empty list
StatisticOf(sig, pool, list) ==
    IF sig = "Taxon" THEN TaxonTestStatistic(pool, list, TaxonFrequencyOf(pool))
    ELSE sphereTestStatistic(sig, pool, list)

\* if (genes.isEmpty()) throw(QString("... Empty gene list provided!"));
Throws(list) == Len(list) = 0

\* what a call of sphereTestStatistic(list) ends with
StatisticOutcome(sig, pool, list) ==
    IF Throws(list) THEN [thrown |-> TRUE, value |-> NaN]
    ELSE [thrown |-> FALSE, value |-> StatisticOf(sig, pool, list)]

\* the lists of pointers to genes of the pool, up to MaxListLen long
ListsOf(pool) == UNION {[1 .. n -> DOMAIN pool] : n \in 0 .. MaxListLen}

\* sphereTestStatistic is called with a list of genes of the pool
CallStatistic ==
    /\ pc = "statistic"
    /\ \E list \in ListsOf(genes) :
          LET outcome == StatisticOutcome(signal, genes, list)
          IN /\ statisticCall' = [genes |-> list, outcome |-> outcome]
             /\ pc' = IF outcome.thrown THEN "statisticThrown" ELSE "statisticReturned"
    /\ UNCHANGED <<signal, genes, sphereRadius, minimumGeneCount, sampleCount,
                   workUnits, averageGenesInASphere, center, sampled, cur, r, drawn,
                   geneCountToRandomStatistics, benjaminiCalls, clusterVars, parVars,
                   pAdjThreshold, calls>>

\* a program with its genes loaded, about to call its statistic
StatisticInit ==
    /\ signal \in Signals \cup {"Taxon"}
    /\ genes \in Pools
    /\ sphereRadius = 1
    /\ minimumGeneCount = 1
    /\ sampleCount = 1
    /\ pc = "statistic"
    /\ workUnits = <<>>
    /\ averageGenesInASphere = 0
    /\ center = NoCenter
    /\ sampled = <<>>
    /\ cur = 0
    /\ r = 0
    /\ drawn = <<>>
    /\ geneCountToRandomStatistics = <<>>
    /\ benjaminiCalls = <<>>
    /\ NotClustered
    /\ NotParallel
    /\ NotCalled

StatisticNext == CallStatistic

StatisticSpec == StatisticInit /\ [][StatisticNext]_vars

-----------------------------------------------------------------------------
(* The stages of extractConservationFields after the p-values: benjamini,    *)
(* the p-values file, the significance filter, clustering, de-duplication    *)
(* and writeClusters                                                         *)

\* largest sampleCount of the whole runs
MaxPipelineSamples == 3

\* a pool of four genes, the last of a taxon of its own
PipelinePool == [i \in 1 .. 4 |-> Gene(i, Vec3D(i - 1, 0, 0), i \div 4)]

\* values of pAdjThreshold the program is built with
PAdjThresholds == {Q(5, 100), Q(1, 2)}

\* what the stages between benjamini and clustering leave alone
notFiltered == <<signal, genes, sphereRadius, minimumGeneCount, sampleCount,
                 averageGenesInASphere, center, sampled, cur, r, drawn,
                 geneCountToRandomStatistics, benjaminiCalls, clusterVars, parVars,
                 callVars>>

\* the p-values are written to Results/pValues.<table>.tsv; the program throws
\* when the file cannot be opened
WritePValuesFile ==
    /\ pc = "adjusted"
    /\ pc' \in {"pValuesWritten", "fileFailed"}
    /\ UNCHANGED <<workUnits, notFiltered>>

\* x.adjustedPValue <= pAdjThreshold
IsSignificant_strict(x, threshold) == QLt(x.adjustedPValue, threshold)
IsSignificant(x, threshold) == QLe(x.adjustedPValue, threshold)

\* std::copy_if(..., std::back_inserter(tmp), ...): push_back copies each unit kept
RECURSIVE CopyIf(_, _)
CopyIf(v, threshold) ==
    IF v = <<>> THEN <<>>
    ELSE (IF IsSignificant(Head(v), threshold) THEN <<CopyWorkUnit(Head(v))>> ELSE <<>>)
         \o CopyIf(Tail(v), threshold)

\* filter by adjusted p-value: workUnits = tmp
FilterSignificant ==
    /\ pc = "pValuesWritten"
    /\ workUnits' = CopyIf(workUnits, pAdjThreshold)
    /\ pc' = "filtered"
    /\ UNCHANGED notFiltered

\* a program before its parallel loop, built with one of the thresholds; the
\* runs explored are those in which std::random_device gave every engine the
\* seed 1
PipelineInit ==
    /\ ParallelStart(PipelinePool, MaxPipelineSamples)
    /\ \A l \in DOMAIN generators : generators[l].seed = 1
    /\ pAdjThreshold \in PAdjThresholds
    /\ statisticCall = <<>>
    /\ calls = 0

\* with the program's overlapThreshold of 0.05 clusterByGeneOverlap leaves its
\* loop whenever fewer than two sets are left
PipelineNext ==
    \/ ParallelNext
    \/ Benjamini
    \/ WritePValuesFile
    \/ FilterSignificant
    \/ StartClustering
    \/ ClusterMerge
    \/ ClusterReturn
    \/ SortClusters
    \/ CleanupDuplicateGenes
    \/ WriteClusters
    \/ NoClustersFound

PipelineSpec == PipelineInit /\ [][PipelineNext]_vars

-----------------------------------------------------------------------------
(* WorkUnit::calculatePValue called again on a work unit it was called on *)

\* how many times a caller repeats a call of calculatePValue
MaxCalls == 1

\* workUnit.calculatePValue(sampleCount) once more, on the unit the last call
\* was made on and with the same randomSampleCount: the members of the unit
\* are as that call left them
CalculatePValueAgain ==
    /\ pc = "forWorkUnits"
    /\ cur > 0
    /\ calls < MaxCalls
    /\ calls' = calls + 1
    /\ cur' = cur - 1
    /\ UNCHANGED <<averageGenesInASphere, signal, genes, sphereRadius,
                   minimumGeneCount, sampleCount, pc,
                   workUnits, center, sampled, r, drawn, geneCountToRandomStatistics,
                   benjaminiCalls, clusterVars, parVars, pAdjThreshold, statisticCall>>

\* the per-unit variant (extractPromoterFields)
RepeatInit == RunInit /\ signal = "Promoter"

RepeatNext ==
    \/ Next
    \/ StartForLoop \/ EnterCalculatePValue \/ DrawRandomSample
    \/ LeaveCalculatePValue \/ EndForLoop
    \/ CalculatePValueAgain

RepeatSpec == RepeatInit /\ [][RepeatNext]_vars

-----------------------------------------------------------------------------
(* Properties of createWorkUnits and SphereGeneSampler (Spec, FairSpec) *)

NoDuplicates(list) == \A i, j \in DOMAIN list : i # j => list[i] # list[j]

\* a sphere has been drawn and createWorkUnits is still in its loop
SphereDrawn == pc = "createWorkUnits" /\ center # NoCenter

\* C1: every work unit of the result holds a sphere sample of at least
\* minimumGeneCount genes; a sphere with fewer genes is not in the result
C1_UnitsHaveMinimumGeneCount ==
    \A i \in DOMAIN workUnits :
        Len(workUnits[i].genesInSphere) >= minimumGeneCount

\* the sphere {A, B} was accepted with minimumGeneCount = 2 and a later,
\* smaller sphere was rejected
C1_Witness ==
    /\ SphereDrawn
    /\ minimumGeneCount = 2
    /\ Len(workUnits) = 1
    /\ workUnits[1].genesInSphere = <<1, 2>>
    /\ Len(sampled) < minimumGeneCount

\* C2: createWorkUnits returns exactly sampleCount work units: the result never
\* exceeds sampleCount, holds sampleCount units on return, grows by one unit
\* (the sphere just drawn) when a draw is accepted and is unchanged by a
\* rejected draw and by the return
C2_ExactlySampleCountUnits ==
    /\ [](/\ Len(workUnits) <= sampleCount
          /\ (pc = "returned" => Len(workUnits) = sampleCount))
    /\ [][/\ (pc' = "createWorkUnits" /\ Len(sampled') >= minimumGeneCount) =>
                /\ Len(workUnits') = Len(workUnits) + 1
                /\ SubSeq(workUnits', 1, Len(workUnits)) = workUnits
                /\ workUnits'[Len(workUnits')].genesInSphere = sampled'
          /\ (pc' = "createWorkUnits" /\ Len(sampled') < minimumGeneCount) =>
                workUnits' = workUnits
          /\ pc' = "returned" => workUnits' = workUnits]_vars

\* a draw was rejected after one was accepted, one unit short of sampleCount
C2_Witness ==
    /\ SphereDrawn
    /\ sampleCount = 2
    /\ Len(workUnits) = 1
    /\ Len(sampled) < minimumGeneCount

\* C3: every sphere sample createWorkUnits accepts satisfies Gene::acceptSample
\* of the program's Gene (replication timing: an index jump of at least 100)
C3_AcceptedSamplesPassAcceptSample ==
    \A i \in DOMAIN workUnits :
        acceptSample(signal, genes, workUnits[i].genesInSphere, minimumGeneCount)

\* no centre of the box gives a sphere createWorkUnits keeps
NoSphereAcceptable ==
    \A c \in Centers : Len(SphereSample(genes, c, sphereRadius)) < minimumGeneCount

C5_SampleIsExactlyTheSphere ==
    center # NoCenter =>
        /\ center.x >= boxMinimum /\ center.x <= boxMaximum
        /\ center.y >= boxMinimum /\ center.y <= boxMaximum
        /\ center.z >= boxMinimum /\ center.z <= boxMaximum
        /\ Range(sampled) =
              {g \in 1 .. Len(genes) :
                   (genes[g].position.x - center.x) * (genes[g].position.x - center.x)
                 + (genes[g].position.y - center.y) * (genes[g].position.y - center.y)
                 + (genes[g].position.z - center.z) * (genes[g].position.z - center.z)
                     <= sphereRadius * sphereRadius}
        /\ NoDuplicates(sampled)

\* a sphere with gene B exactly on its boundary and gene C outside
C5_Witness ==
    /\ center = Vec3D(0, 0, 0)
    /\ sphereRadius = 1
    /\ genes[2].position = Vec3D(1, 0, 0)
    /\ genes[3].position = Vec3D(1, 1, 0)
    /\ sampled = <<1, 2>>

-----------------------------------------------------------------------------
(* Properties of the p-value stage (RunSpec) *)

PerUnitVariant == signal = "Promoter"

\* the p-value of work unit i has been computed
Evaluated(i) ==
    \/ pc = "pValuesDone"
    \/ pc \in {"forWorkUnits", "randomSamples", "cachedPValues"} /\ i <= cur

\* the key of unit i's random draws in the log
DrawKey(i) == IF PerUnitVariant THEN i ELSE Len(workUnits[i].genesInSphere)

\* RandomGeneSampler::sample has just filled the buffer of unit cur + 1
JustSampled == pc \in {"randomSamples", "fillSamples"} /\ r > 0

\* C6: sample(k, out) leaves exactly k references in out, each to a gene of the
\* pool, whatever out held before
C6_RandomSampleHasKReferences ==
    JustSampled =>
        LET u == workUnits[cur + 1]
        IN /\ Len(u.randomGenes) = Len(u.genesInSphere)
           /\ \A j \in DOMAIN u.randomGenes : u.randomGenes[j] \in 1 .. Len(genes)

\* the second sample into the same buffer holds gene A twice
C6_Witness ==
    /\ JustSampled
    /\ r = 2
    /\ workUnits[cur + 1].randomGenes = <<1, 1>>

\* C7 as stated: every sample, spatial or population, is duplicate-free
C7_EverySampleDuplicateFree ==
    \A i \in DOMAIN workUnits :
        /\ NoDuplicates(workUnits[i].genesInSphere)
        /\ NoDuplicates(workUnits[i].randomGenes)

\* C7 amended: every spatial sample (the sphere drawn last and the sphere of
\* every work unit) is duplicate-free
C7_SpatialSamplesDuplicateFree ==
    /\ NoDuplicates(sampled)
    /\ \A i \in DOMAIN workUnits : NoDuplicates(workUnits[i].genesInSphere)

\* a sphere of two genes whose population sample names one gene twice
C7_Witness ==
    \E i \in DOMAIN workUnits :
        /\ Len(workUnits[i].genesInSphere) = 2
        /\ Len(workUnits[i].randomGenes) = 2
        /\ workUnits[i].randomGenes[1] = workUnits[i].randomGenes[2]

\* C8: the p-value of every evaluated work unit rests on exactly sampleCount
\* random statistics, each of a population sample of the size of its sphere
C8_ExactlyRandomSampleCountDraws ==
    \A i \in DOMAIN workUnits :
        Evaluated(i) =>
            LET size == Len(workUnits[i].genesInSphere)
                key == DrawKey(i)
            IN /\ key \in DOMAIN drawn
               /\ Len(drawn[key]) = sampleCount
               /\ \A j \in DOMAIN drawn[key] : drawn[key][j].size = size
               /\ ~PerUnitVariant =>
                     /\ size \in DOMAIN geneCountToRandomStatistics
                     /\ Len(geneCountToRandomStatistics[size]) = sampleCount

\* the cached variant has evaluated a sphere of two genes and one of one gene,
\* with two draws per gene count
C8_Witness ==
    /\ pc = "pValuesDone"
    /\ signal = "Motif"
    /\ sampleCount = 2
    /\ Len(workUnits[1].genesInSphere) = 2
    /\ Len(workUnits[2].genesInSphere) = 1

Min(a, b) == IF a < b THEN a ELSE b
Max(a, b) == IF a < b THEN b ELSE a

\* the random statistic is equal to or more extreme than that of the sphere:
\* lower for histone and motif distance, higher for replication timing
EqualOrMoreExtreme(randomStatistic, sphereStatistic) ==
    /\ randomStatistic.den # 0
    /\ sphereStatistic.den # 0
    /\ IF signal = "ReplicationTiming"
       THEN randomStatistic.num * sphereStatistic.den >= sphereStatistic.num * randomStatistic.den
       ELSE randomStatistic.num * sphereStatistic.den <= sphereStatistic.num * randomStatistic.den

\* the draws of unit i that are chance wins
ChanceWins(i) ==
    {j \in DOMAIN drawn[DrawKey(i)] :
        EqualOrMoreExtreme(drawn[DrawKey(i)][j].statistic,
                           sphereTestStatistic(signal, genes, workUnits[i].genesInSphere))}

\* C9: chanceWinCount of an evaluated unit is the number of its random draws
\* equal to or more extreme than the sphere, and its p-value is
\* chanceWinCount / sampleCount, for the 2-tailed signal 2 * min(p, 1 - p),
\* floored at 1 / sampleCount
C9_ChanceWinsAndPValue ==
    \A i \in DOMAIN workUnits :
        Evaluated(i) =>
            LET u == workUnits[i]
                wins == Cardinality(ChanceWins(i))
                raw == IF signal = "Motif" THEN 2 * Min(wins, sampleCount - wins) ELSE wins
            IN /\ u.chanceWinCount = wins
               /\ u.pValue.den # 0
               /\ u.pValue.num * sampleCount = Max(raw, 1) * u.pValue.den

\* a unit whose two draws tie with the sphere statistic: both are chance wins
C9_Witness ==
    /\ pc = "pValuesDone"
    /\ sampleCount = 2
    /\ \E i \in DOMAIN workUnits :
          /\ Len(workUnits[i].genesInSphere) = 2
          /\ workUnits[i].chanceWinCount = 2
          /\ \A j \in DOMAIN drawn[DrawKey(i)] :
                QEq(drawn[DrawKey(i)][j].statistic,
                    sphereTestStatistic(signal, genes, workUnits[i].genesInSphere))

\* C10: the p-value of every evaluated unit is in [1 / sampleCount, 1], and is
\* 1 / sampleCount when there is no chance win
C10_PValueRange ==
    \A i \in DOMAIN workUnits :
        Evaluated(i) =>
            LET p == workUnits[i].pValue
            IN /\ p.den > 0
               /\ p.den <= p.num * sampleCount
               /\ p.num <= p.den
               /\ workUnits[i].chanceWinCount = 0 => p.num * sampleCount = p.den

\* no chance win in two draws: the p-value is 1/2
C10_Witness ==
    /\ pc = "pValuesDone"
    /\ sampleCount = 2
    /\ workUnits[1].chanceWinCount = 0
    /\ workUnits[1].pValue = Q(1, 2)

-----------------------------------------------------------------------------
(* Properties of benjamini (BenjaminiSpec) *)

\* the call of benjamini that left workUnits
LastCall == benjaminiCalls[Len(benjaminiCalls)]

\* the raw p-values of a vector of work units, as a bag
PValueBag(v) == [p \in {v[i].pValue : i \in DOMAIN v} |->
                    Cardinality({i \in DOMAIN v : v[i].pValue = p})]

\* a <= b for two p-values
AtMost(a, b) == a.den > 0 /\ b.den > 0 /\ a.num * b.den <= b.num * a.den

\* a = min(b, c) for p-values
IsMinimumOf(a, b, c) ==
    /\ AtMost(a, b) /\ AtMost(a, c)
    /\ \/ a.num * b.den = b.num * a.den
       \/ a.num * c.den = c.num * a.den

\* pValue * n / rank
TimesOver(pValue, n, rank) == [num |-> pValue.num * n, den |-> pValue.den * rank]

\* C11: after benjamini the units are those it was given, in ascending order
\* of raw p-value, the unit at position i (1-based) has rank i, the adjusted
\* value of rank N is min(largest raw p, p * N / N) and that of every lower
\* rank is min(adjusted value of the next higher rank, p * N / rank)
C11_RanksAndAdjustedPValues ==
    benjaminiCalls # <<>> =>
        LET n == Len(workUnits)
        IN /\ n = Len(LastCall.argument)
           /\ PValueBag(workUnits) = PValueBag(LastCall.argument)
           /\ \A i \in 1 .. n - 1 : AtMost(workUnits[i].pValue, workUnits[i + 1].pValue)
           /\ \A i \in 1 .. n : workUnits[i].rank = i
           /\ \A i \in 1 .. n :
                 IsMinimumOf(workUnits[i].adjustedPValue,
                             IF i = n THEN workUnits[n].pValue
                                      ELSE workUnits[i + 1].adjustedPValue,
                             TimesOver(workUnits[i].pValue, n, i))

\* the raw p-values 0.5, 0.1, 0.01, 0.001 were adjusted to 0.004, 0.02,
\* 0.4 / 3 and 0.5 for the ranks 1 to 4
C11_Witness ==
    /\ pc = "adjusted"
    /\ Len(benjaminiCalls) = 1
    /\ Len(workUnits) = 4
    /\ [i \in 1 .. 4 |-> LastCall.argument[i].pValue] =
          <<Q(500, 1000), Q(100, 1000), Q(10, 1000), Q(1, 1000)>>
    /\ QEq(workUnits[1].adjustedPValue, Q(4, 1000))
    /\ QEq(workUnits[2].adjustedPValue, Q(20, 1000))
    /\ QEq(workUnits[3].adjustedPValue, Q(400, 3000))
    /\ QEq(workUnits[4].adjustedPValue, Q(500, 1000))

\* C12: listed by ascending raw p-value (rank 1 to rank N) the adjusted
\* p-values are non-decreasing
C12_AdjustedPValuesMonotonic ==
    benjaminiCalls # <<>> =>
        \A i \in 1 .. Len(workUnits) - 1 :
            /\ AtMost(workUnits[i].pValue, workUnits[i + 1].pValue)
            /\ AtMost(workUnits[i].adjustedPValue, workUnits[i + 1].adjustedPValue)

\* two equal raw p-values 0.5: the minimum caps the adjusted value of rank 1,
\* 0.5 * 2 / 1, at that of rank 2
C12_Witness ==
    /\ pc = "adjusted"
    /\ Len(workUnits) = 2
    /\ workUnits[1].pValue = Q(500, 1000)
    /\ workUnits[2].pValue = Q(500, 1000)
    /\ QEq(workUnits[1].adjustedPValue, Q(500, 1000))

\* rank and adjusted p-value at every position of two vectors agree
SameRanksAndAdjusted(v, w) ==
    /\ Len(v) = Len(w)
    /\ \A i \in DOMAIN v : /\ v[i].rank = w[i].rank
                           /\ v[i].adjustedPValue = w[i].adjustedPValue

\* C13: a call of benjamini on the result of an earlier call leaves rank and
\* adjusted p-value of every position as they were, and two calls on the same
\* argument give the same rank and adjusted p-value at every position
C13_IdempotentAndDeterministic ==
    \A a, b \in DOMAIN benjaminiCalls :
        /\ (a < b /\ benjaminiCalls[b].argument = benjaminiCalls[a].result) =>
              SameRanksAndAdjusted(benjaminiCalls[b].result, benjaminiCalls[b].argument)
        /\ benjaminiCalls[a].argument = benjaminiCalls[b].argument =>
              SameRanksAndAdjusted(benjaminiCalls[a].result, benjaminiCalls[b].result)

\* benjamini was called on an unsorted vector with two equal p-values, then on
\* its own result, then on the unsorted vector again
C13_Witness ==
    /\ Len(benjaminiCalls) = 3
    /\ benjaminiCalls[2].argument = benjaminiCalls[1].result
    /\ benjaminiCalls[3].argument = benjaminiCalls[1].argument
    /\ benjaminiCalls[1].argument # benjaminiCalls[1].result
    /\ Len(workUnits) = 3
    /\ benjaminiCalls[1].argument[1].pValue = Q(500, 1000)
    /\ benjaminiCalls[1].argument[2].pValue = Q(10, 1000)
    /\ benjaminiCalls[1].argument[3].pValue = Q(10, 1000)
    /\ benjaminiCalls[3].result # benjaminiCalls[1].result

-----------------------------------------------------------------------------
(* Properties of clusterByGeneOverlap and the de-duplication (ClusterSpec) *)

\* the pairs of positions of a list of gene sets
PairsOf(v) == {p \in (DOMAIN v) \X (DOMAIN v) : p[1] < p[2]}

\* |A /\ B| and min(|A|, |B|) of the pair p of v
Overlap(v, p) == Cardinality(v[p[1]] \cap v[p[2]])
SmallerSize(v, p) ==
    IF Cardinality(v[p[1]]) <= Cardinality(v[p[2]])
    THEN Cardinality(v[p[1]]) ELSE Cardinality(v[p[2]])

\* the overlap ratio of the pair p of v is at least that of the pair q
RatioAtLeast(v, p, q) ==
    Overlap(v, p) * SmallerSize(v, q) >= Overlap(v, q) * SmallerSize(v, p)

\* the pairs of v with the highest overlap ratio
HighestPairs(v) == {p \in PairsOf(v) : \A q \in PairsOf(v) : RatioAtLeast(v, p, q)}

\* the overlap ratio of the pair p of v is >= threshold, is < threshold
ReachesThreshold(v, p, threshold) ==
    Overlap(v, p) * threshold.den >= threshold.num * SmallerSize(v, p)
BelowThreshold(v, p, threshold) ==
    Overlap(v, p) * threshold.den < threshold.num * SmallerSize(v, p)

\* a list of gene sets as a bag
BagOfSets(v) == [s \in Range(v) |-> Cardinality({i \in DOMAIN v : v[i] = s})]

\* v without the sets of the pair p, and with their union
MergedAt(v, p) ==
    Append(SubSeq(v, 1, p[1] - 1) \o SubSeq(v, p[1] + 1, p[2] - 1)
               \o SubSeq(v, p[2] + 1, Len(v)),
           v[p[1]] \cup v[p[2]])

\* C14: in every step of clusterByGeneOverlap on two or more sets, if the
\* highest overlap ratio is >= overlapThreshold a pair with that ratio is
\* replaced by its union and clustering goes on, and otherwise clustering
\* stops and returns the sets unchanged
C14_BestPairMergedIffAtThreshold ==
    [][(pc = "clustering" /\ PairsOf(result) # {}) =>
          IF \E p \in HighestPairs(result) : ReachesThreshold(result, p, overlapThreshold)
          THEN /\ pc' = "clustering"
               /\ \E p \in HighestPairs(result) :
                     BagOfSets(result') = BagOfSets(MergedAt(result, p))
          ELSE /\ pc' = "clustered"
               /\ clusters' = result]_vars

\* C15: clusterByGeneOverlap never indexes outside its list and applies at
\* most (number of sets - 1) merges, for zero, one or more sets and every
\* threshold, 0 included
C15_ClusteringStaysInBounds ==
    /\ pc \notin {"aborted", "corrupted"}
    /\ merges <= (IF Len(workUnits) = 0 THEN 0 ELSE Len(workUnits) - 1)

\* C16: when clusterByGeneOverlap has returned, at most one cluster remains or
\* every pair of clusters has an overlap ratio strictly below overlapThreshold,
\* and maximumOverlapRatio is the largest overlap ratio of a pair of the
\* clusters returned (0 when there is no pair)
C16_ReturnedClustersAreDistinct ==
    pc = "clustered" =>
        /\ \/ Len(clusters) <= 1
           \/ \A p \in PairsOf(clusters) : BelowThreshold(clusters, p, overlapThreshold)
        /\ maximumOverlapRatio.den > 0
        /\ IF PairsOf(clusters) = {}
           THEN maximumOverlapRatio.num = 0
           ELSE \E p \in HighestPairs(clusters) :
                   /\ SmallerSize(clusters, p) > 0
                   /\ Overlap(clusters, p) * maximumOverlapRatio.den =
                          maximumOverlapRatio.num * SmallerSize(clusters, p)

\* {A,B,C,D} and {C,D,E} returned apart for threshold 0.7, with ratio 2/3
C16_Witness ==
    /\ pc = "clustered"
    /\ overlapThreshold = Q(7, 10)
    /\ clusters = <<{"A", "B", "C", "D"}, {"C", "D", "E"}>>
    /\ QEq(maximumOverlapRatio, Q(2, 3))

\* the de-duplication pass is over
Deduplicated == pc \in {"deduplicated", "written", "notWritten", "writeFailed"}

\* C17: after the de-duplication pass no gene name is in two clusters, and
\* writeClusters inserts no gene twice: it does not fail on the primary key
\* and the table holds one row for every gene of the clusters
C17_NoGeneInTwoClusters ==
    /\ Deduplicated =>
          \A p \in PairsOf(clusters) : clusters[p[1]] \cap clusters[p[2]] = {}
    /\ pc # "writeFailed"
    /\ pc = "written" =>
          /\ \A row, other \in table : row.Gene = other.Gene => row = other
          /\ {row.Gene : row \in table} = UNION Range(clusters)

\* the spheres {A,B,C,D} and {C,D,E}, kept apart, were written as the fields
\* {C,D,E} and {A,B}
C17_Witness ==
    /\ pc = "written"
    /\ Len(workUnits) = 2
    /\ workUnits[1].genesInSphere = <<1, 2, 3, 4>>
    /\ workUnits[2].genesInSphere = <<3, 4, 5>>
    /\ clusters = <<{"C", "D", "E"}, {"A", "B"}>>
    /\ Cardinality(table) = 5

\* the clusters before position i of v
EarlierClusters(v, i) == UNION {v[j] : j \in 1 .. i - 1}

\* C18: the pass takes the clusters in ascending order of size; every cluster
\* leaves it as it entered it minus the genes of the clusters before it, the
\* first cluster keeps all its genes, and a gene stays in the first cluster
\* that held it and in no other
C18_SmallerClusterKeepsItsGenes ==
    /\ [](pc = "sorted" =>
             \A i \in 1 .. Len(clusters) - 1 :
                 Cardinality(clusters[i]) <= Cardinality(clusters[i + 1]))
    /\ [][(pc = "sorted" /\ pc' = "deduplicated") =>
             /\ Len(clusters') = Len(clusters)
             /\ \A i \in DOMAIN clusters :
                   clusters'[i] = clusters[i] \ EarlierClusters(clusters, i)
             /\ clusters # <<>> => clusters'[1] = clusters[1]
             /\ \A i \in DOMAIN clusters : \A g \in clusters[i] :
                   (g \notin EarlierClusters(clusters, i)) =>
                       /\ g \in clusters'[i]
                       /\ \A j \in DOMAIN clusters : j # i => g \notin clusters'[j]]_vars

\* the clusters {C,D,E} and {A,B,C,D}, in this order by size, left the pass as
\* {C,D,E} and {A,B}
C18_Witness ==
    /\ pc = "deduplicated"
    /\ overlapThreshold = Q(7, 10)
    /\ Len(clusters) = 2
    /\ clusters[1] = {"C", "D", "E"}
    /\ clusters[2] = {"A", "B"}
    /\ genesUsed = {"A", "B", "C", "D", "E"}

-----------------------------------------------------------------------------
(* Properties of the cached variant (RunSpec) *)

\* the program runs the cached variant
Cached == signal \in {"Motif", "ReplicationTiming"}

\* the gene counts of the spheres
GeneCounts == {Len(workUnits[i].genesInSphere) : i \in DOMAIN workUnits}

\* the cache holds one list of sampleCount statistics for every gene count of
\* the spheres, and nothing else
CacheComplete ==
    /\ DOMAIN geneCountToRandomStatistics = GeneCounts
    /\ \A geneCount \in GeneCounts :
          Len(geneCountToRandomStatistics[geneCount]) = sampleCount

\* the chance wins of unit i against the cached list of its gene count
WinsAgainstCache(i) ==
    Cardinality({k \in 1 .. sampleCount :
        randomIsMoreExtreme(signal,
            geneCountToRandomStatistics[Len(workUnits[i].genesInSphere)][k],
            sphereTestStatistic(signal, genes, workUnits[i].genesInSphere))})

\* C20: in the cached variant no unit has a p-value while the cache is being
\* filled; when the p-values are computed the cache holds, for every gene
\* count among the spheres, one list of exactly sampleCount statistics; every
\* unit is compared with the list of its gene count; and no step of the
\* p-value loop changes the cache
C20_CacheFilledBeforePValues ==
    /\ []((Cached /\ pc \in {"fillCache", "fillSamples"}) =>
             \A i \in DOMAIN workUnits :
                 /\ workUnits[i].chanceWinCount = 0
                 /\ workUnits[i].pValue = NewWorkUnit.pValue)
    /\ []((Cached /\ pc \in {"cachedPValues", "pValuesDone"}) => CacheComplete)
    /\ []((Cached /\ pc = "pValuesDone") =>
             \A i \in DOMAIN workUnits :
                 workUnits[i].chanceWinCount = WinsAgainstCache(i))
    /\ [][(Cached /\ pc = "cachedPValues") =>
             geneCountToRandomStatistics' = geneCountToRandomStatistics]_vars

\* two motif spheres of the same gene count were compared with the one cached
\* list of two statistics, and the first of them lost both comparisons
C20_Witness ==
    /\ pc = "pValuesDone"
    /\ signal = "Motif"
    /\ sampleCount = 2
    /\ Len(workUnits) = 2
    /\ Len(workUnits[1].genesInSphere) = Len(workUnits[2].genesInSphere)
    /\ Cardinality(DOMAIN geneCountToRandomStatistics) = 1
    /\ workUnits[1].chanceWinCount = 2

-----------------------------------------------------------------------------
(* Properties of the parallel p-value loop (ParallelSpec) *)

\* the chance wins of unit i when its iteration runs alone, its engine
\* starting from its seed
RECURSIVE WinsAlone(_, _, _, _)
WinsAlone(i, rr, state, wins) ==
    IF ~(rr < sampleCount) THEN wins
    ELSE LET list == workUnits[i].genesInSphere
             frequency == TaxonFrequencyOf(genes)
             draws == Draws(genes, Len(list), state)
             random == RandomSample(genes, Len(list), <<>>, draws.picks)
         IN WinsAlone(i, rr + 1, draws.state,
                      IF TaxonIsMoreExtreme(TaxonTestStatistic(genes, random, frequency),
                                            TaxonTestStatistic(genes, list, frequency))
                      THEN wins + 1 ELSE wins)

\* the p-value of unit i for the draws of its own engine
PValueAlone(i) ==
    FloorPValue(
        calculatePValue(signal,
                        WinsAlone(i, 0, generators[Member(i, "randomSampler")].seed, 0),
                        sampleCount),
        sampleCount)

\* C19: in the parallel loop every write of the iteration of unit i is to a
\* member of work unit i; no location written by one thread is read or
\* written by another; the shared objects (the pool, the global taxon table,
\* sampleCount, the vector) are only read and the table keeps its value; and
\* when the loop is over every unit has the p-value its iteration gives for
\* the draws of its own engine, whatever the interleaving was
C19_IterationsWriteOnlyTheirUnit ==
    /\ \A a \in accesses :
          a.kind = "write" =>
              /\ a.location[1] = a.unit
              /\ \A b \in accesses : b.thread # a.thread => b.location # a.location
    /\ \A a \in accesses : a.location[1] = 0 => a.kind = "read"
    /\ pc \in {"parallelFor", "pValuesDone"} /\ signal = "Taxon" =>
          taxonFrequency = TaxonFrequencyOf(genes)
    /\ (pc = "pValuesDone" /\ signal = "Taxon") =>
          \A i \in DOMAIN workUnits : workUnits[i].pValue = PValueAlone(i)

\* two threads have evaluated one unit each, both drew from an engine and read
\* the taxon table, and the two units got different p-values
C19_Witness ==
    /\ pc = "pValuesDone"
    /\ signal = "Taxon"
    /\ sampleCount = 2
    /\ \A t \in Threads :
          /\ \E a \in accesses :
                a.thread = t /\ a.kind = "write" /\ a.location[2] = "randomSampler"
          /\ \E a \in accesses :
                a.thread = t /\ a.kind = "read" /\ a.location = Shared("taxonFrequency")
    /\ workUnits[1].pValue # workUnits[2].pValue

-----------------------------------------------------------------------------
(* Properties of sphereTestStatistic (StatisticSpec) *)

\* C21: a call of sphereTestStatistic with an empty list or with a list of a
\* single gene (no pair) fails, for the statistic of every signal: it does
\* not return a number
C21_DegenerateSamplesRejected ==
    (pc \in {"statisticThrown", "statisticReturned"} /\ Len(statisticCall.genes) <= 1) =>
        /\ pc = "statisticThrown"
        /\ statisticCall.outcome.thrown

-----------------------------------------------------------------------------
(* Properties of the stages of a run (PipelineSpec) *)

\* the adjusted p-value of x passes the program's threshold
IsKept(x) == QLe(x.adjustedPValue, pAdjThreshold)

\* the sphere and the p-values of every unit of a vector
Trials(v) ==
    [i \in DOMAIN v |-> [genesInSphere |-> v[i].genesInSphere, pValue |-> v[i].pValue,
                         adjustedPValue |-> v[i].adjustedPValue]]

\* the gene names of a sphere
NamesOf(list) == {genes[list[i]].name : i \in DOMAIN list}

\* C22: benjamini is called only when the parallel loop is over and every
\* trial has had its p-value written, and on all sampleCount trials; the filter
\* runs after benjamini (and the p-values file) and keeps, in order, exactly
\* the trials with adjustedPValue <= pAdjThreshold; clustering starts from
\* one gene-name set per trial kept; the table is written only from the
\* de-duplicated clusters and only when there is at least one cluster
C22_StagesInOrder ==
    /\ [][benjaminiCalls' # benjaminiCalls =>
             /\ pc = "pValuesDone"
             /\ Len(workUnits) = sampleCount
             /\ benjaminiCalls'[Len(benjaminiCalls')].argument = workUnits
             /\ \A i \in DOMAIN workUnits :
                   \E a \in accesses : a.kind = "write" /\ a.location = Member(i, "pValue")]_vars
    /\ [][(pc' = "filtered" /\ pc # "filtered") =>
             /\ pc = "pValuesWritten"
             /\ Len(benjaminiCalls) = 1
             /\ workUnits = benjaminiCalls[1].result
             /\ Trials(workUnits') = Trials(SelectSeq(workUnits, IsKept))]_vars
    /\ [][(pc' = "clustering" /\ pc # "clustering") =>
             /\ pc = "filtered"
             /\ Len(result') = Len(workUnits)
             /\ \A i \in DOMAIN workUnits :
                   result'[i] = NamesOf(workUnits[i].genesInSphere)]_vars
    /\ [][(pc' = "deduplicated" /\ pc # "deduplicated") => pc = "sorted"]_vars
    /\ [][table' # table =>
             /\ pc = "deduplicated"
             /\ clusters # <<>>
             /\ pc' \in {"written", "writeFailed"}]_vars
    /\ [](pc = "notWritten" => (clusters = <<>> /\ table = {}))
    /\ [](pc = "parallelFor" => benjaminiCalls = <<>>)

\* of three trials adjusted by benjamini the filter kept two, and their
\* cluster was written
C22_Witness ==
    /\ pc = "written"
    /\ sampleCount = 3
    /\ Len(benjaminiCalls) = 1
    /\ Len(benjaminiCalls[1].result) = 3
    /\ Len(workUnits) = 2
    /\ table # {}

-----------------------------------------------------------------------------
(* More properties of clustering, de-duplication and writeClusters (ClusterSpec) *)

\* the number of genes written with the field name of cluster i (0-based)
GenesOfField(i) == Cardinality({row \in table : row.Field = FieldName(i)})

\* C23: in the table written by a sphere-test program the cluster named 'A'
\* is the smallest: the number of genes of a field does not decrease with
\* its letter
C23_FieldsInOrderOfSize ==
    pc = "written" =>
        \A i, j \in 0 .. Len(clusters) - 1 :
            i < j => GenesOfField(i) <= GenesOfField(j)

\* v without the two sets of the pair p
WithoutPair(v, p) ==
    SubSeq(v, 1, p[1] - 1) \o SubSeq(v, p[1] + 1, p[2] - 1) \o SubSeq(v, p[2] + 1, Len(v))

\* the first of the pairs of the highest ratio in the order of the loops:
\* i ascending, then j ascending
FirstHighestPair(v) ==
    CHOOSE p \in HighestPairs(v) :
        \A q \in HighestPairs(v) : p[1] < q[1] \/ (p[1] = q[1] /\ p[2] <= q[2])

\* a pass of the while loop applies a merge
MergeStep == pc = "clustering" /\ pc' = "clustering" /\ merges' = merges + 1

\* C24: in every merge of clusterByGeneOverlap on non-empty sets, the two sets
\* taken out of the list are those of the first pair, in the order of the
\* loops, among the pairs of the highest overlap ratio
C24_FirstOfTiedPairsMerged ==
    [][(MergeStep /\ \A i \in DOMAIN result : result[i] # {}) =>
          BagOfSets(PopBack(result')) =
              BagOfSets(WithoutPair(result, FirstHighestPair(result)))]_vars

\* of {A,B}, {B,C}, {C,D} the pairs (0, 1) and (1, 2) tie at 1/2: {A,B} and
\* {B,C} were merged, {C,D} was left
C24_Witness ==
    /\ pc = "clustering"
    /\ merges = 1
    /\ Len(workUnits) = 3
    /\ workUnits[1].genesInSphere = <<1, 2>>
    /\ workUnits[2].genesInSphere = <<2, 3>>
    /\ workUnits[3].genesInSphere = <<3, 4>>
    /\ result = <<{"C", "D"}, {"A", "B", "C"}>>

\* the gene names of the input trials
InputNames == UNION {NamesOf(workUnits[i].genesInSphere) : i \in DOMAIN workUnits}

\* C25: every merge of clusterByGeneOverlap leaves one set fewer, leaves the
\* sets other than the merged pair as they were and keeps the union of all
\* gene names; the clusters returned have the gene names of the input trials,
\* and none of them is empty when no input set is
C25_MergeKeepsTheGenes ==
    /\ [][MergeStep =>
             /\ Len(result') = Len(result) - 1
             /\ \E p \in PairsOf(result) :
                   BagOfSets(PopBack(result')) = BagOfSets(WithoutPair(result, p))
             /\ UNION Range(result') = UNION Range(result)]_vars
    /\ [](pc = "clustered" =>
             /\ UNION Range(clusters) = InputNames
             /\ (\A i \in DOMAIN workUnits : workUnits[i].genesInSphere # <<>>) =>
                    \A i \in DOMAIN clusters : clusters[i] # {})

\* C29: after the de-duplication pass no cluster is empty, and every field
\* name of the table written has a gene
C29_NoEmptyFinalCluster ==
    /\ pc \in {"deduplicated", "written", "writeFailed"} =>
          \A i \in DOMAIN clusters : clusters[i] # {}
    /\ pc = "written" =>
          \A i \in 0 .. Len(clusters) - 1 : GenesOfField(i) > 0


-----------------------------------------------------------------------------
(* Properties of what benjamini and the significance filter leave alone
   (PipelineSpec) *)

\* the members of a work unit other than rank and adjustedPValue (and the
\* sampling buffer)
Untouched(x) ==
    [genesInSphere |-> x.genesInSphere, pValue |-> x.pValue,
     chanceWinCount |-> x.chanceWinCount,
     statisticInSphere |-> x.statisticInSphere,
     statisticInRandom |-> x.statisticInRandom]

\* those members of the units of a vector, as a bag
UntouchedBag(v) ==
    [u \in {Untouched(v[i]) : i \in DOMAIN v} |->
        Cardinality({i \in DOMAIN v : Untouched(v[i]) = u})]

\* C26: benjamini leaves genesInSphere, pValue, chanceWinCount,
\* statisticInSphere and statisticInRandom of every work unit as they were
\* (the units are those it was given, in another order), and every unit the
\* significance filter copies has these members as before the call
C26_OnlyRankAndAdjustedChange ==
    \A c \in DOMAIN benjaminiCalls :
        /\ UntouchedBag(benjaminiCalls[c].result) = UntouchedBag(benjaminiCalls[c].argument)
        /\ pc \in {"filtered", "clustering"} =>
              \A i \in DOMAIN workUnits :
                  \E k \in DOMAIN benjaminiCalls[c].argument :
                      Untouched(workUnits[i]) = Untouched(benjaminiCalls[c].argument[k])


-----------------------------------------------------------------------------
(* Bounds and ties of the adjusted p-values (BenjaminiSpec) *)

\* the largest raw p-value of a vector of work units
LargestPValue(v) ==
    CHOOSE p \in {v[i].pValue : i \in DOMAIN v} :
        \A i \in DOMAIN v : AtMost(v[i].pValue, p)

\* C27: after benjamini every work unit has pValue <= adjustedPValue <= the
\* largest raw p-value of the list, so no adjusted p-value exceeds 1, and the
\* unit of the highest rank has an adjusted p-value equal to its raw p-value
C27_AdjustedBetweenRawAndLargest ==
    benjaminiCalls # <<>> =>
        LET n == Len(workUnits)
        IN /\ \A i \in 1 .. n :
                 /\ AtMost(workUnits[i].pValue, workUnits[i].adjustedPValue)
                 /\ AtMost(workUnits[i].adjustedPValue, LargestPValue(LastCall.argument))
                 /\ AtMost(workUnits[i].adjustedPValue, Q(1, 1))
           /\ \A i \in 1 .. n :
                 workUnits[i].rank = n => QEq(workUnits[i].adjustedPValue, workUnits[i].pValue)

\* the raw p-values 0.5, 0.5, 0.1: rank 2 would get 0.5 * 3 / 2 = 0.75 and is
\* capped at the largest raw p-value 0.5, rank 1 gets 0.1 * 3 / 1 = 0.3
C27_Witness ==
    /\ pc = "adjusted"
    /\ Len(workUnits) = 3
    /\ [i \in 1 .. 3 |-> LastCall.argument[i].pValue] =
          <<Q(500, 1000), Q(500, 1000), Q(100, 1000)>>
    /\ workUnits[1].pValue = Q(100, 1000)
    /\ QEq(workUnits[1].adjustedPValue, Q(3, 10))
    /\ workUnits[2].rank = 2
    /\ QEq(workUnits[2].adjustedPValue, Q(1, 2))
    /\ workUnits[3].rank = 3
    /\ QEq(workUnits[3].adjustedPValue, workUnits[3].pValue)

\* the (pValue, adjustedPValue) pairs of the units of v are among those of w
PairsAmong(v, w) ==
    \A i \in DOMAIN v : \E k \in DOMAIN w :
        /\ v[i].pValue = w[k].pValue
        /\ QEq(v[i].adjustedPValue, w[k].adjustedPValue)

\* the trials of v that pass the filter adjustedPValue <= threshold, as a bag
\* of (genes in the sphere, raw p-value)
Passing(v, threshold) ==
    LET kept == {i \in DOMAIN v : IsSignificant(v[i], threshold)}
        trial(i) == <<v[i].genesInSphere, v[i].pValue>>
    IN [t \in {trial(i) : i \in kept} |-> Cardinality({i \in kept : trial(i) = t})]

\* C28: work units of equal raw p-value get equal adjusted p-values, and
\* whichever order the sort leaves tied units in, the set of (pValue,
\* adjustedPValue) pairs and the trials passing the filter
\* adjustedPValue <= pAdjThreshold are the same
C28_TiesDoNotMatter ==
    \A c \in DOMAIN benjaminiCalls :
        LET found == benjaminiCalls[c].result
        IN /\ \A i, k \in DOMAIN found :
                 found[i].pValue = found[k].pValue =>
                     QEq(found[i].adjustedPValue, found[k].adjustedPValue)
           /\ \A other \in BenjaminiResults(benjaminiCalls[c].argument) :
                 /\ PairsAmong(found, other) /\ PairsAmong(other, found)
                 /\ \A threshold \in PAdjThresholds :
                       Passing(found, threshold) = Passing(other, threshold)

\* the raw p-values 0.01 (sphere {A,B}), 0.01 (sphere {B,C}) and 0.5: the sort
\* put the second unit first, both tied units have the adjusted p-value 0.015
\* and pass the filter at 0.05, the third does not
C28_Witness ==
    /\ Len(benjaminiCalls) = 1
    /\ Len(workUnits) = 3
    /\ [i \in 1 .. 3 |-> LastCall.argument[i].pValue] =
          <<Q(10, 1000), Q(10, 1000), Q(500, 1000)>>
    /\ LastCall.argument[1].genesInSphere # LastCall.argument[2].genesInSphere
    /\ workUnits[1].genesInSphere = LastCall.argument[2].genesInSphere
    /\ workUnits[2].genesInSphere = LastCall.argument[1].genesInSphere
    /\ QEq(workUnits[1].adjustedPValue, Q(15, 1000))
    /\ QEq(workUnits[2].adjustedPValue, Q(15, 1000))
    /\ IsSignificant(workUnits[1], pAdjThreshold)
    /\ IsSignificant(workUnits[2], pAdjThreshold)
    /\ ~IsSignificant(workUnits[3], pAdjThreshold)


-----------------------------------------------------------------------------
(* Properties of repeated calls of WorkUnit::calculatePValue (RepeatSpec) *)

\* C30: after any number of calls of calculatePValue on a work unit, with the
\* same randomSampleCount, 0 <= chanceWinCount <= randomSampleCount and
\* pValue <= 1: a call does not add to the chance wins of an earlier call
C30_CallsDoNotAccumulate ==
    pc \in {"forWorkUnits", "pValuesDone"} =>
        \A i \in 1 .. cur :
            /\ 0 <= workUnits[i].chanceWinCount
            /\ workUnits[i].chanceWinCount <= sampleCount
            /\ QLe(workUnits[i].pValue, Q(1, 1))

=============================================================================
